---------------------------- MODULE Spec2Model ----------------------------
(***************************************************************************)
(* Model of the content-automation-platform frontend: the page loaders     *)
(* (site resolver, article list/detail fetches and their response          *)
(* normalisation), the session/auth context with the admin login page,     *)
(* and the admin article table.                                            *)
(*                                                                         *)
(* Three specifications share the module:                                  *)
(*   SpecPages  one page render at a time against a Content API whose      *)
(*              data is drawn in Init and whose responses are chosen per   *)
(*              request;                                                   *)
(*   SpecAuth   AuthProvider, the admin login page, the route guard and    *)
(*              the admin navigation's logout;                             *)
(*   SpecTable  ArticleTable with per-row and bulk status requests.        *)
(***************************************************************************)
EXTENDS Integers, Sequences, FiniteSets, TLC

VARIABLES
  \* ---- Content API data (drawn in Init, read-only for the pages) ----
  apiSites,       \* sequence of Site records the sites endpoint holds
  apiArticles,    \* sequence of Article records of the requested site
  \* ---- one page render (SpecPages) ----
  comp,           \* which page component rendered last
  params,         \* its route params / search params
  pagePc,         \* "idle" | "loading" (client component awaiting) | "done"
  configResp,     \* response received by getSiteConfig's sites request
  sitesResp,      \* response received by getSites' sites request
  articlesResp,   \* response received for the articles request
  view,           \* what the component ended up rendering
  shown,          \* the articles the component displays
  shownSites,     \* the sites the component displays / passes on
  pageReqs,       \* the requests this render issued: set of [ep, q]
  \* ---- browser ----
  documentCookie, \* document.cookie as a sequence of [name, value] pairs
  sentNow,        \* the mutating requests issued by the latest sending step
  \* ---- AuthProvider (SpecAuth) ----
  isAuthenticated,
  isLoading,
  checkPc,        \* "mounted" | "checking" | "done": the mount effect's checkAuth
  lastAuth,       \* the auth operation that completed last, with its response
  \* ---- admin routes, AdminLogin, AdminNav ----
  route,          \* the admin route displayed
  lastNav,        \* the navigation issued last and the auth state it saw
  loginPc,        \* "idle" | "login" | "probe": handleLoginAttempt's position
  loginMounted,   \* the AdminLogin instance that submitted is still mounted
  formLoading,    \* AdminLogin's own isLoading
  loginError,     \* AdminLogin's error message ("" | "invalid" | "already")
  isAlreadyAuthenticated,
  logoutPc,       \* "idle" | "nav" (handleLogout) | "force" (handleForceLogout)
  \* ---- ArticleTable (SpecTable) ----
  server,         \* the Content API's status of each article id
  articles,       \* the articles prop: sequence of [id, status] as loaded
  selectedArticles,
  loading,
  inflight,       \* status requests in flight: set of [id, action, by]
  bulkPc,         \* "idle" | "awaiting": bulkUpdateStatus awaits Promise.all
  bulkPending,    \* ids whose bulk request the awaited Promise.all still waits for
  reloadPending,  \* window.location.reload() was called, the page is going away
  statusFilter,   \* the status filter of the admin page's URL ("" for none)
  lastTable,      \* what the latest step of the table did
  \* ---- SearchAndFilter and the listing's address (SpecFilter) ----
  urlQuery,       \* query of the address bar: set of <<name, encoded value>>
  history,        \* the tab's history entries (queries of /{site})
  histIdx,        \* position of the current entry in history
  searchTerm,
  selectedCategory,
  effectPending,  \* the URL effect's dependencies changed, it has yet to run
  fetchPending,   \* the address changed, SitePage has yet to render for it
  lastFetchQ,     \* query of the articles request SitePage issued last
  navTarget,      \* filter values of the address a load or history step set
  lastFilter,     \* what the latest step of the listing did
  \* ---- AdminDashboard (SpecDash) ----
  dashTruth,      \* the count each of the five endpoints holds
  dashPc,         \* "mounted" | "loading" | "done": loadStats' position
  dashResps,      \* the responses getDashboardStats received
  stats,
  dashIsLoading,  \* AdminDashboard's own isLoading
  \* ---- AIContentPage (SpecAi) ----
  selectedSite,
  aiPc,           \* "idle" | "generating" | "saving": the generate handler's position
  isGenerating,
  message,        \* the message as the sequence of its parts (<<>> is '')
  generatedArticle, \* "null" or the article_data of the generate response
  topicsInFlight, \* fetchTrendingTopics calls awaiting their response
  topicsLoading,  \* AIContentPage's own isLoading
  aiReqs,         \* generate / createArticle requests the current run issued
  aiOutcome,      \* how the generate and the createArticle of the run ended
  topics,         \* topics.length
  aiBy,           \* the handler that started the generation in progress
  \* ---- the two renderings of a generation result (SpecSections) ----
  sections,       \* generatedArticle.sections
  previewDom,     \* the elements sections.map(renderSection) put on the page
  bodyHtml,       \* the elements of convertSectionsToHtml's string
  \* ---- createSlug (SpecSlug) ----
  slugClock,      \* the instant new Date() reads, in ticks
  posted,         \* the articles posted so far: [title, slug, at]
  \* ---- the client ArticlePage under changing params (SpecDetail) ----
  dMounted,
  dParams,        \* the slug of the current params
  dLoads,         \* the loadData() runs in flight: [id, slug]
  dStarted,       \* how many loadData() runs were started
  dState,         \* error, siteConfig, article, isLoading
  dLatestOutcome, \* outcome of the run started last ("none" while in flight)
  dLastSettle,    \* whether the run that settled last found the page mounted
  \* ---- the client admin ArticlesPage's load effect (SpecAdminLoad) ----
  aFilters,       \* the filters state
  aPrev,          \* prevFiltersRef.current
  aLen,           \* articles.length
  aIsLoading,
  aLoad,          \* the loadData() in flight
  aEffectDue,     \* a dependency changed: the effect runs after this render
  aFetches,       \* articles fetches since the last user trigger
  aLastOp,
  \* ---- the searching indicator of SearchAndFilter (SpecDebounce) ----
  sMounted,
  sTerm,          \* searchTerm
  sIsSearching,
  sNow,           \* the clock, in ticks
  sTimers,        \* the pending setTimeout timers
  sLastChange     \* the time of the last change of searchTerm

pageVars == <<apiSites, apiArticles, comp, params, pagePc, configResp,
              sitesResp, articlesResp, view, shown, shownSites, pageReqs>>

browserVars == <<documentCookie, sentNow>>

authVars == <<isAuthenticated, isLoading, checkPc, lastAuth, route, lastNav,
              loginPc, loginMounted, formLoading, loginError, isAlreadyAuthenticated,
              logoutPc>>

tableVars == <<server, articles, selectedArticles, loading, inflight, bulkPc,
               bulkPending, reloadPending, statusFilter, lastTable>>

filterVars == <<urlQuery, history, histIdx, searchTerm, selectedCategory,
                effectPending, fetchPending, lastFetchQ, navTarget, lastFilter>>

dashVars == <<dashTruth, dashPc, dashResps, stats, dashIsLoading>>

aiVars == <<selectedSite, aiPc, isGenerating, message, generatedArticle,
            topicsInFlight, topicsLoading, aiReqs, aiOutcome, topics, aiBy>>

sectVars == <<sections, previewDom, bodyHtml>>

slugVars == <<slugClock, posted>>

detailVars == <<dMounted, dParams, dLoads, dStarted, dState, dLatestOutcome, dLastSettle>>

adminLoadVars == <<aFilters, aPrev, aLen, aIsLoading, aLoad, aEffectDue, aFetches, aLastOp>>

debounceVars == <<sMounted, sTerm, sIsSearching, sNow, sTimers, sLastChange>>

extraVars == <<filterVars, dashVars, aiVars, sectVars, slugVars, detailVars, adminLoadVars, debounceVars>>

notFilterVars == <<pageVars, browserVars, authVars, tableVars, dashVars, aiVars, sectVars, slugVars, detailVars, adminLoadVars, debounceVars>>

notDashVars == <<pageVars, browserVars, authVars, tableVars, filterVars, aiVars, sectVars, slugVars, detailVars, adminLoadVars, debounceVars>>

notAiVars == <<pageVars, browserVars, authVars, tableVars, filterVars, dashVars, sectVars, slugVars, detailVars, adminLoadVars, debounceVars>>

notSectVars == <<pageVars, browserVars, authVars, tableVars, filterVars, dashVars, aiVars, slugVars, detailVars, adminLoadVars, debounceVars>>

notSlugVars == <<pageVars, browserVars, authVars, tableVars, filterVars, dashVars, aiVars, sectVars, detailVars, adminLoadVars, debounceVars>>

notDetailVars == <<pageVars, browserVars, authVars, tableVars, filterVars, dashVars, aiVars, sectVars, slugVars, adminLoadVars, debounceVars>>

notAdminLoadVars == <<pageVars, browserVars, authVars, tableVars, filterVars, dashVars, aiVars, sectVars, slugVars, detailVars, debounceVars>>

notDebounceVars == <<pageVars, browserVars, authVars, tableVars, filterVars, dashVars, aiVars, sectVars, slugVars, detailVars, adminLoadVars>>

vars == <<pageVars, browserVars, authVars, tableVars, extraVars>>

notPageVars == <<browserVars, authVars, tableVars, extraVars>>

-----------------------------------------------------------------------------
(* Bounds and small domains *)

MaxSites == 2
MaxArticles == 2

Slugs == {"a", "b"}
Statuses == {"pending", "approved", "rejected"}
SearchTerms == {"", "a", "zz"}
Categories == {"", "all", "tech"}

Site == [slug : Slugs]
Article == [slug : Slugs, status : Statuses]

Range(s) == {s[i] : i \in 1..Len(s)}

SeqsUpTo(S, n) == UNION {[1..k -> S] : k \in 0..n}

DistinctSlugs(s) == \A i, j \in 1..Len(s) : i # j => s[i].slug # s[j].slug

-----------------------------------------------------------------------------
(* HTTP responses of the list endpoints.  kind "transport" is a rejected    *)
(* fetch; otherwise ok is response.ok and shape says what res.json() gives: *)
(*   array              a bare JSON array of items                          *)
(*   envelope           {results: items, count: N}                          *)
(*   object             a JSON object without `results`                     *)
(*   results_not_array  an object whose `results` is not an array           *)
(*   null               JSON null                                           *)
(*   unparsable         res.json() rejects                                  *)

NoResp == [kind |-> "none", ok |-> FALSE, shape |-> "none", items |-> <<>>, count |-> 0]
TransportFailure == [kind |-> "transport", ok |-> FALSE, shape |-> "none", items |-> <<>>, count |-> 0]
Http(ok, shape, items) ==
  [kind |-> "http", ok |-> ok, shape |-> shape, items |-> items, count |-> Len(items)]

ArrayResp(items) == Http(TRUE, "array", items)
EnvelopeResp(items) == Http(TRUE, "envelope", items)

BadShapes == {"object", "results_not_array", "null", "unparsable"}

\* Everything the server may answer to a list request whose true content is items.
ServerResponses(items) ==
  {TransportFailure, ArrayResp(items), EnvelopeResp(items)}
    \cup {Http(TRUE, sh, <<>>) : sh \in BadShapes}
    \cup {Http(FALSE, "object", <<>>), Http(FALSE, "unparsable", <<>>),
          Http(FALSE, "array", items)}

\* Result of an async function: it either threw (rejected) or returned val.
\* A list is returned as is; a lookup returns <<x>> for x and <<>> for absent.
Ret(v) == [threw |-> FALSE, val |-> v]
Threw == [threw |-> TRUE, val |-> <<>>]

fetchThrows(r) == r.kind = "transport"
jsonThrows(r) == r.shape = "unparsable"
\* response && response.results && Array.isArray(response.results)
hasResultsArray(r) == r.shape = "envelope"
\* Array.isArray(response)
isArray(r) == r.shape = "array"

\* Array.prototype.find(x => x.slug === slug): first match, or undefined
find(xs, slug) ==
  LET hits == {i \in 1..Len(xs) : xs[i].slug = slug}
  IN IF hits = {} THEN <<>>
     ELSE <<xs[CHOOSE i \in hits : \A j \in hits : i <= j]>>


-----------------------------------------------------------------------------
(* The Content API as the pages see it.  Every article of apiArticles       *)
(* belongs to site OwnerSite; the server honours the query's filters.       *)

OwnerSite == "a"

QueryHas(q, name) == \E pr \in q : pr[1] = name
QueryVal(q, name) == (CHOOSE pr \in q : pr[1] = name)[2]

ServerMatches(a, q) ==
  /\ QueryHas(q, "site") => QueryVal(q, "site") = OwnerSite
  /\ QueryHas(q, "status") => a.status = QueryVal(q, "status")
  /\ QueryHas(q, "search") => a.slug = QueryVal(q, "search")

ServerArticles(q) == SelectSeq(apiArticles, LAMBDA a : ServerMatches(a, q))

-----------------------------------------------------------------------------
(* Site resolver *)

\* lib/getSiteConfig.ts: no try/catch, no res.ok check, res.json() taken as array
getSiteConfig(r, slug) ==
  IF fetchThrows(r) THEN Threw
  ELSE IF jsonThrows(r) THEN Threw
  ELSE IF isArray(r) THEN Ret(find(r.items, slug))
  ELSE Threw   \* sites.find is not a function / sites is null

\* getSites of the site layout
getSites_layout(r) ==
  IF fetchThrows(r) THEN Ret(<<>>)
  ELSE IF ~r.ok THEN Ret(<<>>)
  ELSE IF jsonThrows(r) THEN Ret(<<>>)
  ELSE IF hasResultsArray(r) THEN Ret(r.items)
  ELSE IF isArray(r) THEN Ret(r.items)
  ELSE Ret(<<>>)

\* getSites of the home page
getSites_home(r) ==
  IF fetchThrows(r) THEN Ret(<<>>)
  ELSE IF ~r.ok THEN Ret(<<>>)
  ELSE IF jsonThrows(r) THEN Ret(<<>>)
  ELSE IF hasResultsArray(r) THEN Ret(r.items)
  ELSE IF isArray(r) THEN Ret(r.items)
  ELSE Ret(<<>>)

\* getSites of the admin articles page
getSites_admin(r) ==
  IF fetchThrows(r) THEN Ret(<<>>)
  ELSE IF ~r.ok THEN Ret(<<>>)
  ELSE IF jsonThrows(r) THEN Ret(<<>>)
  ELSE IF hasResultsArray(r) THEN Ret(r.items)
  ELSE IF isArray(r) THEN Ret(r.items)
  ELSE Ret(<<>>)

-----------------------------------------------------------------------------
(* Article fetches *)

\* URL of the public listing's getArticles(site, search, category)
listingQuery(site, search, category) ==
  {<<"site", site>>, <<"status", "approved">>}
    \cup (IF search # "" THEN {<<"search", search>>} ELSE {})
    \cup (IF category # "" /\ category # "all" THEN {<<"category", category>>} ELSE {})

\* public listing getArticles: what it returns for response r
getArticles_listing(r) ==
  IF fetchThrows(r) THEN Ret(<<>>)
  ELSE IF ~r.ok THEN Ret(<<>>)
  ELSE IF jsonThrows(r) THEN Ret(<<>>)
  ELSE IF hasResultsArray(r) THEN Ret(r.items)
  ELSE IF isArray(r) THEN Ret(r.items)
  ELSE Ret(<<>>)

\* a fulfilled promise whose value is parsed JSON that is not an array
RetRaw(shape) == [threw |-> FALSE, val |-> <<>>, raw |-> shape]

\* URL of app/[site]/page.tsx's getArticles(site)
legacyQuery(site) == {<<"site", site>>, <<"status", "approved">>}

\* getArticles of app/[site]/page.tsx: no try / catch; [] for an error
\* status, otherwise whatever res.json() gives
getArticles_legacy(r) ==
  IF fetchThrows(r) THEN Threw
  ELSE IF ~r.ok THEN Ret(<<>>)
  ELSE IF jsonThrows(r) THEN Threw
  ELSE IF isArray(r) THEN Ret(r.items)
  ELSE RetRaw(r.shape)

\* URL of the detail page's getArticle(site, slug)
detailQuery(site) == {<<"site", site>>}

\* detail page getArticle: the article with that slug, or null
getArticle(r, slug) ==
  IF fetchThrows(r) THEN Ret(<<>>)
  ELSE IF ~r.ok THEN Ret(<<>>)
  ELSE IF jsonThrows(r) THEN Ret(<<>>)
  ELSE IF hasResultsArray(r) THEN Ret(find(r.items, slug))
  ELSE IF isArray(r) THEN Ret(find(r.items, slug))
  ELSE Ret(<<>>)

\* URLSearchParams of the admin getArticles(filters): falsy fields are skipped
adminQuery(f) ==
  (IF f.site # "" THEN {<<"site", f.site>>} ELSE {})
    \cup (IF f.status # "" THEN {<<"status", f.status>>} ELSE {})
    \cup (IF f.search # "" THEN {<<"search", f.search>>} ELSE {})

\* admin getArticles (server-rendered page)
getArticles_admin(r) ==
  IF fetchThrows(r) THEN Ret(<<>>)
  ELSE IF ~r.ok THEN Ret(<<>>)
  ELSE IF jsonThrows(r) THEN Ret(<<>>)
  ELSE IF hasResultsArray(r) THEN Ret(r.items)
  ELSE IF isArray(r) THEN Ret(r.items)
  ELSE Ret(<<>>)

\* admin getArticles (client page)
getArticles_adminClient(r) ==
  IF fetchThrows(r) THEN Ret(<<>>)
  ELSE IF ~r.ok THEN Ret(<<>>)
  ELSE IF jsonThrows(r) THEN Ret(<<>>)
  ELSE IF hasResultsArray(r) THEN Ret(r.items)
  ELSE IF isArray(r) THEN Ret(r.items)
  ELSE Ret(<<>>)


-----------------------------------------------------------------------------
(* Page components.  A server component runs to completion within one       *)
(* request, so its render is one step; a client component has a loading     *)
(* state between mount and the completion of its load.                      *)

NoParams == [site |-> "", slug |-> "", search |-> "", category |-> "", status |-> ""]
Req(ep, q) == [ep |-> ep, q |-> q]

PagesInit ==
  /\ apiSites \in {s \in SeqsUpTo(Site, MaxSites) : DistinctSlugs(s)}
  /\ apiArticles \in {s \in SeqsUpTo(Article, MaxArticles) : DistinctSlugs(s)}
  /\ comp = "none"
  /\ params = NoParams
  /\ pagePc = "idle"
  /\ configResp = NoResp
  /\ sitesResp = NoResp
  /\ articlesResp = NoResp
  /\ view = "none"
  /\ shown = <<>>
  /\ shownSites = <<>>
  /\ pageReqs = {}

\* `!x` of a lookup result
absent(res) == res.val = <<>>

\* Home: const sites = await getSites()
Home ==
  /\ pagePc = "idle"
  /\ \E r \in ServerResponses(apiSites) :
       /\ sitesResp' = r
       /\ shownSites' = getSites_home(r).val
  /\ comp' = "Home"
  /\ params' = NoParams
  /\ pagePc' = "done"
  /\ configResp' = NoResp
  /\ articlesResp' = NoResp
  /\ view' = "home"
  /\ shown' = <<>>
  /\ pageReqs' = {Req("sites", {})}
  /\ UNCHANGED <<apiSites, apiArticles>>
  /\ UNCHANGED notPageVars

\* what SiteLayout renders from its two results (Promise.all rejects if one does)
SiteLayoutView(cfg, all) ==
  IF cfg.threw \/ all.threw THEN "error"
  ELSE IF absent(cfg) THEN "not_found"
  ELSE "layout"

SiteLayout ==
  /\ pagePc = "idle"
  /\ \E site \in Slugs, rc \in ServerResponses(apiSites), rs \in ServerResponses(apiSites) :
       LET cfg == getSiteConfig(rc, site)
           all == getSites_layout(rs)
       IN /\ params' = [NoParams EXCEPT !.site = site]
          /\ configResp' = rc
          /\ sitesResp' = rs
          /\ view' = SiteLayoutView(cfg, all)
          /\ shownSites' = IF SiteLayoutView(cfg, all) = "layout" THEN all.val ELSE <<>>
  /\ comp' = "SiteLayout"
  /\ pagePc' = "done"
  /\ articlesResp' = NoResp
  /\ shown' = <<>>
  /\ pageReqs' = {Req("sites", {})}
  /\ UNCHANGED <<apiSites, apiArticles>>
  /\ UNCHANGED notPageVars

\* what SitePage (the public listing) renders
SitePageView(cfg, arts, search) ==
  IF cfg.threw \/ arts.threw THEN "error"
  ELSE IF absent(cfg) THEN "not_found"
  ELSE IF Len(arts.val) = 0
       THEN (IF search # "" THEN "no_results" ELSE "none_yet")
  ELSE "list"

SitePage ==
  /\ pagePc = "idle"
  /\ \E site \in Slugs, search \in SearchTerms, category \in Categories :
       LET q == listingQuery(site, search, category) IN
       \E rc \in ServerResponses(apiSites), ra \in ServerResponses(ServerArticles(q)) :
         LET cfg == getSiteConfig(rc, site)
             arts == getArticles_listing(ra)
         IN /\ params' = [NoParams EXCEPT !.site = site, !.search = search,
                                          !.category = category]
            /\ configResp' = rc
            /\ articlesResp' = ra
            /\ view' = SitePageView(cfg, arts, search)
            /\ shown' = IF SitePageView(cfg, arts, search) = "list" THEN arts.val ELSE <<>>
            /\ pageReqs' = {Req("sites", {}), Req("articles", q)}
  /\ comp' = "SitePage"
  /\ pagePc' = "done"
  /\ sitesResp' = NoResp
  /\ shownSites' = <<>>
  /\ UNCHANGED <<apiSites, apiArticles>>
  /\ UNCHANGED notPageVars

\* what SitePage of app/[site]/page.tsx renders: notFound() when articles
\* is falsy or has length 0; articles.map of a non-array object throws
SitePageLegacyView(arts) ==
  IF arts.threw THEN "error"
  ELSE IF arts = RetRaw("null") THEN "not_found"
  ELSE IF arts # Ret(arts.val) THEN "error"
  ELSE IF Len(arts.val) = 0 THEN "not_found"
  ELSE "list"

\* SitePage of app/[site]/page.tsx
SitePageLegacy ==
  /\ pagePc = "idle"
  /\ \E site \in Slugs :
       LET q == legacyQuery(site) IN
       \E ra \in ServerResponses(ServerArticles(q)) :
         LET arts == getArticles_legacy(ra)
         IN /\ params' = [NoParams EXCEPT !.site = site]
            /\ articlesResp' = ra
            /\ view' = SitePageLegacyView(arts)
            /\ shown' = IF SitePageLegacyView(arts) = "list" THEN arts.val ELSE <<>>
            /\ pageReqs' = {Req("articles", q)}
  /\ comp' = "SitePageLegacy"
  /\ pagePc' = "done"
  /\ configResp' = NoResp
  /\ sitesResp' = NoResp
  /\ shownSites' = <<>>
  /\ UNCHANGED <<apiSites, apiArticles>>
  /\ UNCHANGED notPageVars

\* what the server-rendered ArticlePage renders
ArticlePageView(cfg, art) ==
  IF cfg.threw \/ art.threw THEN "error"
  ELSE IF absent(cfg) \/ absent(art) THEN "not_found"
  ELSE "article"

ArticlePage ==
  /\ pagePc = "idle"
  /\ \E site \in Slugs, slug \in Slugs :
       LET q == detailQuery(site) IN
       \E rc \in ServerResponses(apiSites), ra \in ServerResponses(ServerArticles(q)) :
         LET cfg == getSiteConfig(rc, site)
             art == getArticle(ra, slug)
         IN /\ params' = [NoParams EXCEPT !.site = site, !.slug = slug]
            /\ configResp' = rc
            /\ articlesResp' = ra
            /\ view' = ArticlePageView(cfg, art)
            /\ shown' = IF ArticlePageView(cfg, art) = "article" THEN art.val ELSE <<>>
            /\ pageReqs' = {Req("sites", {}), Req("articles", q)}
  /\ comp' = "ArticlePage"
  /\ pagePc' = "done"
  /\ sitesResp' = NoResp
  /\ shownSites' = <<>>
  /\ UNCHANGED <<apiSites, apiArticles>>
  /\ UNCHANGED notPageVars

\* client ArticlePage: mount with isLoading = true, the load effect starts its fetches
ArticlePageClientMount ==
  /\ pagePc = "idle"
  /\ \E site \in Slugs, slug \in Slugs :
       /\ params' = [NoParams EXCEPT !.site = site, !.slug = slug]
       /\ pageReqs' = {Req("sites", {}), Req("articles", detailQuery(site))}
  /\ comp' = "ArticlePageClient"
  /\ pagePc' = "loading"
  /\ view' = "loading"
  /\ configResp' = NoResp
  /\ sitesResp' = NoResp
  /\ articlesResp' = NoResp
  /\ shown' = <<>>
  /\ shownSites' = <<>>
  /\ UNCHANGED <<apiSites, apiArticles>>
  /\ UNCHANGED notPageVars

\* loadData of the client ArticlePage: the error it sets ("" for none); a
\* rejection of either fetch is caught
loadDataError(cfg, art) ==
  IF cfg.threw \/ art.threw THEN "Failed to load article"
  ELSE IF absent(cfg) THEN "Site not found"
  ELSE IF absent(art) THEN "Article not found"
  ELSE ""

\* the client ArticlePage's render once isLoading is false
ArticlePageClientView(error, siteConfig, article) ==
  IF error # "" \/ siteConfig = <<>> \/ article = <<>> THEN "not_found" ELSE "article"

ArticlePageClientLoad ==
  /\ pagePc = "loading"
  /\ comp = "ArticlePageClient"
  /\ \E rc \in ServerResponses(apiSites),
        ra \in ServerResponses(ServerArticles(detailQuery(params.site))) :
       LET cfg == getSiteConfig(rc, params.site)
           art == getArticle(ra, params.slug)
           error == loadDataError(cfg, art)
           siteConfig == IF error = "" THEN cfg.val ELSE <<>>
           article == IF error = "" THEN art.val ELSE <<>>
       IN /\ configResp' = rc
          /\ articlesResp' = ra
          /\ view' = ArticlePageClientView(error, siteConfig, article)
          /\ shown' = IF ArticlePageClientView(error, siteConfig, article) = "article"
                      THEN article ELSE <<>>
  /\ pagePc' = "done"
  /\ UNCHANGED <<apiSites, apiArticles, comp, params, sitesResp, shownSites, pageReqs>>
  /\ UNCHANGED notPageVars

\* filters the admin articles page is opened with
AdminFilters ==
  {[NoParams EXCEPT !.status = st, !.search = se] :
     st \in {""} \cup Statuses, se \in {"", "a"}}

\* ArticleTable's render of its articles prop
ArticleTableView(arts) == IF Len(arts) = 0 THEN "table_empty" ELSE "table"

\* server-rendered admin ArticlesPage
ArticlesPage ==
  /\ pagePc = "idle"
  /\ \E f \in AdminFilters :
       LET q == adminQuery(f) IN
       \E ra \in ServerResponses(ServerArticles(q)), rs \in ServerResponses(apiSites) :
         LET arts == getArticles_admin(ra)
             sites == getSites_admin(rs)
         IN /\ params' = f
            /\ articlesResp' = ra
            /\ sitesResp' = rs
            /\ view' = IF arts.threw \/ sites.threw THEN "error"
                       ELSE ArticleTableView(arts.val)
            /\ shown' = IF arts.threw \/ sites.threw THEN <<>> ELSE arts.val
            /\ shownSites' = IF arts.threw \/ sites.threw THEN <<>> ELSE sites.val
            /\ pageReqs' = {Req("articles", q), Req("sites", {})}
  /\ comp' = "ArticlesPage"
  /\ pagePc' = "done"
  /\ configResp' = NoResp
  /\ UNCHANGED <<apiSites, apiArticles>>
  /\ UNCHANGED notPageVars

\* client admin ArticlesPage: mounts with empty filters and isLoading = true;
\* the load effect finds articles.length = 0 and calls loadData
ArticlesPageClientMount ==
  /\ pagePc = "idle"
  /\ comp' = "ArticlesPageClient"
  /\ params' = NoParams
  /\ pagePc' = "loading"
  /\ view' = "loading"
  /\ pageReqs' = {Req("articles", adminQuery(NoParams)), Req("sites", {})}
  /\ configResp' = NoResp
  /\ sitesResp' = NoResp
  /\ articlesResp' = NoResp
  /\ shown' = <<>>
  /\ shownSites' = <<>>
  /\ UNCHANGED <<apiSites, apiArticles>>
  /\ UNCHANGED notPageVars

\* loadData of the client admin ArticlesPage completes: both results are set
\* (a rejection would be caught and leave them), isLoading becomes false
ArticlesPageClientLoad ==
  /\ pagePc = "loading"
  /\ comp = "ArticlesPageClient"
  /\ \E ra \in ServerResponses(ServerArticles(adminQuery(params))),
        rs \in ServerResponses(apiSites) :
       LET arts == getArticles_adminClient(ra)
           sites == getSites_admin(rs)
           failed == arts.threw \/ sites.threw
       IN /\ articlesResp' = ra
          /\ sitesResp' = rs
          /\ shown' = IF failed THEN shown ELSE arts.val
          /\ shownSites' = IF failed THEN shownSites ELSE sites.val
          /\ view' = ArticleTableView(IF failed THEN shown ELSE arts.val)
  /\ pagePc' = "done"
  /\ UNCHANGED <<apiSites, apiArticles, comp, params, configResp, pageReqs>>
  /\ UNCHANGED notPageVars

\* the browser leaves the rendered page; the next request starts afresh
LeavePage ==
  /\ pagePc = "done"
  /\ comp' = "none"
  /\ params' = NoParams
  /\ pagePc' = "idle"
  /\ configResp' = NoResp
  /\ sitesResp' = NoResp
  /\ articlesResp' = NoResp
  /\ view' = "none"
  /\ shown' = <<>>
  /\ shownSites' = <<>>
  /\ pageReqs' = {}
  /\ UNCHANGED <<apiSites, apiArticles>>
  /\ UNCHANGED notPageVars

PagesNext ==
  \/ Home
  \/ SiteLayout
  \/ SitePage
  \/ SitePageLegacy
  \/ ArticlePage
  \/ ArticlePageClientMount
  \/ ArticlePageClientLoad
  \/ ArticlesPage
  \/ ArticlesPageClientMount
  \/ ArticlesPageClientLoad
  \/ LeavePage

-----------------------------------------------------------------------------
(* Claims about the page loaders (checked under SpecPages) *)

PublicArticleComps == {"SitePage", "SitePageLegacy", "ArticlePage", "ArticlePageClient"}
TenantComps == {"SiteLayout", "SitePage", "ArticlePage", "ArticlePageClient"}
ArticleListComps == {"SitePage", "SitePageLegacy", "ArticlesPage", "ArticlesPageClient"}

\* C1: the public listing and the public detail page request articles only
\* with status=approved and never display a pending or rejected article.
C1_PublicOnlyApproved ==
  comp \in PublicArticleComps =>
    /\ \A req \in pageReqs :
         req.ep = "articles" => <<"status", "approved">> \in req.q
    /\ \A i \in 1..Len(shown) : shown[i].status = "approved"

\* C7: for every list-fetching operation the envelope {results: xs, count: N}
\* and the bare array xs give the same result (for the lookups, the same
\* element found): stated for the lists the API holds and for the site
\* lookup of the render that received the envelope.
C7_EnvelopeEqualsArray ==
  /\ getArticles_listing(EnvelopeResp(apiArticles)) = getArticles_listing(ArrayResp(apiArticles))
  /\ getArticles_admin(EnvelopeResp(apiArticles)) = getArticles_admin(ArrayResp(apiArticles))
  /\ getArticles_adminClient(EnvelopeResp(apiArticles))
       = getArticles_adminClient(ArrayResp(apiArticles))
  /\ getArticles_legacy(EnvelopeResp(apiArticles)) = getArticles_legacy(ArrayResp(apiArticles))
  /\ \A slug \in Slugs :
       getArticle(EnvelopeResp(apiArticles), slug) = getArticle(ArrayResp(apiArticles), slug)
  /\ getSites_home(EnvelopeResp(apiSites)) = getSites_home(ArrayResp(apiSites))
  /\ getSites_layout(EnvelopeResp(apiSites)) = getSites_layout(ArrayResp(apiSites))
  /\ getSites_admin(EnvelopeResp(apiSites)) = getSites_admin(ArrayResp(apiSites))
  /\ (pagePc = "done" /\ comp \in TenantComps /\ configResp = EnvelopeResp(apiSites)) =>
       getSiteConfig(configResp, params.site) = getSiteConfig(ArrayResp(apiSites), params.site)

\* the sites response leaves the tenant slug unresolved: no site of the list
\* has the slug, or the request failed in transport or has an unexpected shape
SlugUnresolved(r, slug) ==
  \/ r.kind = "transport"
  \/ r.kind = "http" /\ r.shape \in BadShapes
  \/ r.kind = "http" /\ r.shape \in {"array", "envelope"} /\ find(r.items, slug) = <<>>

\* C8: resolving a tenant slug never raises; whenever the slug is unresolved
\* getSiteConfig yields absent and the tenant-scoped page ends in not-found.
C8_UnresolvedSlugIsNotFound ==
  (pagePc = "done" /\ comp \in TenantComps /\ SlugUnresolved(configResp, params.site)) =>
    /\ ~getSiteConfig(configResp, params.site).threw
    /\ absent(getSiteConfig(configResp, params.site))
    /\ view = "not_found"

\* the article list request failed: transport, error status, or a body that
\* is neither an array nor an object with an array `results`
ListFetchFailed(r) ==
  \/ r.kind = "transport"
  \/ r.kind = "http" /\ ~r.ok
  \/ r.kind = "http" /\ r.shape \in BadShapes

\* the article list fetch of the rendered component, applied to response r
getArticlesOf(c, r) ==
  CASE c = "SitePage" -> getArticles_listing(r)
    [] c = "SitePageLegacy" -> getArticles_legacy(r)
    [] c = "ArticlesPage" -> getArticles_admin(r)
    [] c = "ArticlesPageClient" -> getArticles_adminClient(r)

\* what the component renders when its article list is genuinely empty
EmptyListView(c) ==
  CASE c = "SitePage" ->
         SitePageView(getSiteConfig(configResp, params.site), Ret(<<>>), params.search)
    [] c = "SitePageLegacy" -> SitePageLegacyView(Ret(<<>>))
    [] c = "ArticlesPage" -> "table_empty"
    [] c = "ArticlesPageClient" -> "table_empty"

\* C9: when the article list request fails (transport, non-2xx, wrong shape)
\* the fetch returns the empty sequence without raising, and the page renders
\* what it renders for a genuinely empty list.
C9_FailedListIsEmpty ==
  (pagePc = "done" /\ comp \in ArticleListComps /\ ListFetchFailed(articlesResp)) =>
    /\ getArticlesOf(comp, articlesResp) = Ret(<<>>)
    /\ shown = <<>>
    /\ view = EmptyListView(comp)

\* the articles response holds an article with the slug
ArticleResolved(r, slug) ==
  /\ r.kind = "http"
  /\ r.ok
  /\ r.shape \in {"array", "envelope"}
  /\ find(r.items, slug) # <<>>

\* C16: the detail page shows only the loading placeholder until its load
\* has finished; once finished, unless the site and the article were both
\* resolved (site absent, article absent, or a request failed) it ends in
\* not-found and shows no article.
C16_DetailOnlyWhenBothResolved ==
  comp \in {"ArticlePage", "ArticlePageClient"} =>
    /\ pagePc = "loading" => (view = "loading" /\ shown = <<>>)
    /\ (pagePc = "done" /\ view = "article") =>
         /\ ~SlugUnresolved(configResp, params.site)
         /\ ArticleResolved(articlesResp, params.slug)
         /\ shown = find(articlesResp.items, params.slug)
    /\ (pagePc = "done"
         /\ (SlugUnresolved(configResp, params.site)
               \/ ~ArticleResolved(articlesResp, params.slug))) =>
         (view = "not_found" /\ shown = <<>>)

\* the listing's articles request was answered with a well-formed empty list
ZeroArticles(r) ==
  /\ r.kind = "http"
  /\ r.ok
  /\ r.shape \in {"array", "envelope"}
  /\ Len(r.items) = 0

\* the site of the render exists, and the render's own site lookup found it
SiteKnown ==
  /\ find(apiSites, params.site) # <<>>
  /\ comp = "SitePage" =>
       /\ ~getSiteConfig(configResp, params.site).threw
       /\ ~absent(getSiteConfig(configResp, params.site))

FilterActive == params.search # "" \/ params.category \notin {"", "all"}

\* C17: a public listing of a known site that receives zero articles renders
\* 'no results' (with the clear link) when a search term or a category other
\* than 'all' is active and 'no articles yet' when none is; never not-found.
C17_EmptyListingStates ==
  (pagePc = "done" /\ comp \in {"SitePage", "SitePageLegacy"}
     /\ SiteKnown /\ ZeroArticles(articlesResp)) =>
    /\ view # "not_found"
    /\ view = IF FilterActive THEN "no_results" ELSE "none_yet"

-----------------------------------------------------------------------------
(* Cookies and request headers *)

Cookie(n, v) == [name |-> n, value |-> v]

\* the cookie jars the browser is seen with: none, a session cookie only,
\* a csrftoken, a csrftoken after another cookie, a percent-encoded csrftoken
CookieJars ==
  { <<>>,
    <<Cookie("sessionid", "s1")>>,
    <<Cookie("csrftoken", "tokA")>>,
    <<Cookie("sessionid", "s1"), Cookie("csrftoken", "tokB")>>,
    <<Cookie("csrftoken", "tok%43")>> }

decodeURIComponent(v) == IF v = "tok%43" THEN "tokC" ELSE v

\* getCSRFToken: the decoded value of the first cookie named csrftoken, else
\* null (modelled as "")
RECURSIVE getCSRFTokenFrom(_, _)
getCSRFTokenFrom(cookies, i) ==
  IF i > Len(cookies) THEN ""
  ELSE IF cookies[i].name = "csrftoken" THEN decodeURIComponent(cookies[i].value)
  ELSE getCSRFTokenFrom(cookies, i + 1)

getCSRFToken == getCSRFTokenFrom(documentCookie, 1)

\* the csrftoken cookie's value as the browser holds it ("" when absent)
CsrfCookiePresent == \E i \in 1..Len(documentCookie) : documentCookie[i].name = "csrftoken"

\* a header set is a set of <<name, value>> pairs
\* createHeaders(): Content-Type, and X-CSRFToken when the token is truthy
createHeaders ==
  {<<"Content-Type", "application/json">>}
    \cup (IF getCSRFToken # "" THEN {<<"X-CSRFToken", getCSRFToken>>} ELSE {})

\* headers: { 'Content-Type': 'application/json' } written inline
contentTypeOnly == {<<"Content-Type", "application/json">>}

\* a mutating request as sent: endpoint, headers, whether credentials:'include'
\* was given, and the csrftoken the browser held at that moment
Mutating(ep, id, headers, credentials) ==
  [ep |-> ep, id |-> id, headers |-> headers, credentials |-> credentials,
   cookie |-> getCSRFToken, cookiePresent |-> CsrfCookiePresent]

\* the browser's cookies change (Set-Cookie of a response, expiry, the user)
CookieChange ==
  /\ documentCookie' \in CookieJars \ {documentCookie}
  /\ UNCHANGED <<sentNow, pageVars, authVars, tableVars, extraVars>>

-----------------------------------------------------------------------------
(* Session/Auth context *)

\* responses of the auth endpoints; body is what res.json() gives
AuthResp(ok, body) == [kind |-> "http", ok |-> ok, body |-> body]
AuthTransportFailure == [kind |-> "transport", ok |-> FALSE, body |-> "none"]
NoAuthResp == [kind |-> "none", ok |-> FALSE, body |-> "none"]

CheckBodies == {"authenticated_true", "authenticated_false", "unparsable"}
LoginBodies == {"success_true", "success_false", "error_invalid",
                "error_already", "unparsable"}
LogoutBodies == {"success_true", "unparsable"}

CheckResponses == {AuthTransportFailure} \cup {AuthResp(ok, b) : ok \in BOOLEAN, b \in CheckBodies}
LoginResponses == {AuthTransportFailure} \cup {AuthResp(ok, b) : ok \in BOOLEAN, b \in LoginBodies}
LogoutResponses == {AuthTransportFailure} \cup {AuthResp(ok, b) : ok \in BOOLEAN, b \in LogoutBodies}

NoAuthOp == [op |-> "none", resp |-> NoAuthResp, ret |-> "none", raised |-> FALSE,
             authBefore |-> FALSE, loadingBefore |-> FALSE]
NoNav == [by |-> "none", to |-> "", isLoading |-> FALSE, isAuthenticated |-> FALSE]
Nav(by, to) == [by |-> by, to |-> to, isLoading |-> isLoading,
                isAuthenticated |-> isAuthenticated]

\* useState(false) / useState(true) of AuthProvider
InitIsAuthenticated == FALSE
\* variant: the provider starts with isLoading false
InitIsLoading_false == FALSE
InitIsLoading == TRUE

GuardedRoutes == {"/admin", "/admin/articles", "/admin/ai-content"}
AdminRoutes == GuardedRoutes \cup {"/admin/login"}

AuthInit ==
  /\ isAuthenticated = InitIsAuthenticated
  /\ isLoading = InitIsLoading
  /\ checkPc = "mounted"
  /\ lastAuth = NoAuthOp
  /\ route \in AdminRoutes
  /\ lastNav = NoNav
  /\ loginPc = "idle"
  /\ loginMounted = FALSE
  /\ formLoading = FALSE
  /\ loginError = ""
  /\ isAlreadyAuthenticated = FALSE
  /\ logoutPc = "idle"

\* variant: checkAuth without the response.ok test
checkAuthResult_noOkTest(r) ==
  IF r.kind = "transport" THEN FALSE
  ELSE IF r.body = "unparsable" THEN FALSE
  ELSE r.body = "authenticated_true"

\* checkAuth's effect on isAuthenticated for response r: data.authenticated of
\* an ok response, false for an error status and for anything caught
checkAuthResult(r) ==
  IF r.kind = "transport" THEN FALSE
  ELSE IF r.ok THEN (IF r.body = "unparsable" THEN FALSE
                     ELSE r.body = "authenticated_true")
  ELSE FALSE

\* the mount effect calls checkAuth: the GET is sent
CheckAuthStart ==
  /\ checkPc = "mounted"
  /\ checkPc' = "checking"
  /\ UNCHANGED <<isAuthenticated, isLoading, lastAuth, route, lastNav, loginPc,
                 loginMounted, formLoading, loginError, isAlreadyAuthenticated, logoutPc>>
  /\ UNCHANGED <<browserVars, pageVars, tableVars, extraVars>>

\* checkAuth completes: try / catch / finally
CheckAuthComplete ==
  /\ checkPc = "checking"
  /\ \E r \in CheckResponses :
       /\ isAuthenticated' = checkAuthResult(r)
       /\ lastAuth' = [op |-> "checkAuth", resp |-> r, ret |-> "none", raised |-> FALSE,
                       authBefore |-> isAuthenticated, loadingBefore |-> isLoading]
  /\ isLoading' = FALSE
  /\ checkPc' = "done"
  /\ UNCHANGED <<route, lastNav, loginPc, loginMounted, formLoading, loginError,
                 isAlreadyAuthenticated, logoutPc>>
  /\ UNCHANGED <<browserVars, pageVars, tableVars, extraVars>>

\* variant: login() without the 'Already authenticated' branch
loginSucceeds_noAlready(r) ==
  IF r.kind = "transport" THEN FALSE
  ELSE IF r.body = "unparsable" THEN FALSE
  ELSE r.ok /\ r.body = "success_true"

\* login(): TRUE when it treats response r as a success.  A rejected fetch, a
\* body that does not parse and a failed response fall to `return false`.
loginSucceeds(r) ==
  IF r.kind = "transport" THEN FALSE
  ELSE IF r.body = "unparsable" THEN FALSE
  ELSE IF r.ok /\ r.body = "success_true" THEN TRUE
  ELSE IF r.body = "error_already" THEN TRUE
  ELSE FALSE


\* variant: logout() without its finally
logout_noFinally(r) == [isAuthenticated |-> TRUE, raised |-> FALSE]

\* variant: logout() with try / finally and no catch
logout_noCatch(r) == [isAuthenticated |-> FALSE, raised |-> r.kind = "transport"]

\* logout(): the state it leaves and whether it raises to its caller; the
\* fetch sits in try / catch, setIsAuthenticated(false) in finally
logout(r) == [isAuthenticated |-> FALSE, raised |-> FALSE]

-----------------------------------------------------------------------------
(* Admin routes: ProtectedRoute, AdminLogin, AdminNav.  The handlers of      *)
(* AdminLogin run one at a time; a handler whose page instance was left      *)
(* keeps running, and its local state updates then go nowhere.               *)

\* ProtectedRoute's render: placeholder while loading, redirect to the login
\* page when unauthenticated, the protected children otherwise
ProtectedRouteView ==
  IF isLoading THEN "loading"
  ELSE IF ~isAuthenticated THEN "redirect"
  ELSE "content"

\* variant: AdminLogin without its `if (authLoading)` placeholder
AdminLoginView_noPlaceholder ==
  IF isAlreadyAuthenticated THEN "already" ELSE "form"

\* AdminLogin's render
AdminLoginView ==
  IF isLoading THEN "checking"
  ELSE IF isAlreadyAuthenticated THEN "already"
  ELSE "form"

\* the AdminLogin instance is unmounted: its local state is gone
LocalReset ==
  /\ formLoading' = FALSE
  /\ loginError' = ""
  /\ isAlreadyAuthenticated' = FALSE
  /\ loginMounted' = FALSE

\* ProtectedRoute's redirect effect
ProtectedRouteRedirect ==
  /\ route \in GuardedRoutes
  /\ ProtectedRouteView = "redirect"
  /\ route' = "/admin/login"
  /\ lastNav' = Nav("guard", "/admin/login")
  /\ UNCHANGED <<isAuthenticated, isLoading, checkPc, lastAuth, loginPc, loginMounted,
                 formLoading, loginError, isAlreadyAuthenticated, logoutPc>>
  /\ UNCHANGED <<browserVars, pageVars, tableVars, extraVars>>

\* AdminLogin's effect: if (!authLoading && isAuthenticated) router.push('/admin')
LoginRedirectEffect ==
  /\ route = "/admin/login"
  /\ ~isLoading /\ isAuthenticated
  /\ route' = "/admin"
  /\ lastNav' = Nav("loginEffect", "/admin")
  /\ LocalReset
  /\ UNCHANGED <<isAuthenticated, isLoading, checkPc, lastAuth, loginPc, logoutPc>>
  /\ UNCHANGED <<browserVars, pageVars, tableVars, extraVars>>

\* the user opens another admin route
Navigate ==
  /\ \E to \in AdminRoutes \ {route} :
       /\ route' = to
       /\ lastNav' = Nav("user", to)
  /\ IF route = "/admin/login" THEN LocalReset
     ELSE UNCHANGED <<formLoading, loginError, isAlreadyAuthenticated, loginMounted>>
  /\ UNCHANGED <<isAuthenticated, isLoading, checkPc, lastAuth, loginPc, logoutPc>>
  /\ UNCHANGED <<browserVars, pageVars, tableVars, extraVars>>

\* the browser reloads the page: AuthProvider and the page mount afresh and
\* what was in flight is dropped
PageReload ==
  /\ isAuthenticated' = InitIsAuthenticated
  /\ isLoading' = InitIsLoading
  /\ checkPc' = "mounted"
  /\ lastAuth' = NoAuthOp
  /\ lastNav' = NoNav
  /\ loginPc' = "idle"
  /\ logoutPc' = "idle"
  /\ LocalReset
  /\ sentNow' = {}
  /\ UNCHANGED <<route, documentCookie, pageVars, tableVars, extraVars>>

\* handleLoginAttempt, up to the await of login(): login() posts the credentials
LoginSubmit ==
  /\ route = "/admin/login"
  /\ AdminLoginView = "form"
  /\ ~formLoading
  /\ loginPc = "idle" /\ logoutPc # "force"
  /\ formLoading' = TRUE
  /\ loginError' = ""
  /\ isAlreadyAuthenticated' = FALSE
  /\ loginMounted' = TRUE
  /\ loginPc' = "login"
  /\ sentNow' = {Mutating("login", 0, createHeaders, TRUE)}
  /\ UNCHANGED <<isAuthenticated, isLoading, checkPc, lastAuth, route, lastNav, logoutPc>>
  /\ UNCHANGED <<documentCookie, pageVars, tableVars, extraVars>>

\* login() returns.  On success handleLoginAttempt pushes /admin and ends; on
\* failure it posts the credentials a second time to read the error.
LoginComplete ==
  /\ loginPc = "login"
  /\ \E r \in LoginResponses :
       /\ lastAuth' = [op |-> "login", resp |-> r,
                       ret |-> IF loginSucceeds(r) THEN "true" ELSE "false",
                       raised |-> FALSE,
                       authBefore |-> isAuthenticated, loadingBefore |-> isLoading]
       /\ IF loginSucceeds(r)
          THEN /\ isAuthenticated' = TRUE
               /\ route' = "/admin"
               /\ lastNav' = [by |-> "submit", to |-> "/admin", isLoading |-> isLoading,
                              isAuthenticated |-> TRUE]
               /\ LocalReset
               /\ loginPc' = "idle"
               /\ UNCHANGED sentNow
          ELSE /\ loginPc' = "probe"
               /\ sentNow' = {Mutating("login", 0, contentTypeOnly, TRUE)}
               /\ UNCHANGED <<isAuthenticated, route, lastNav, formLoading, loginError,
                              isAlreadyAuthenticated, loginMounted>>
  /\ UNCHANGED <<isLoading, checkPc, logoutPc, documentCookie, pageVars, tableVars, extraVars>>

\* the message handleLoginAttempt shows after its second request
probeError(r) ==
  IF r.kind = "transport" THEN "invalid"
  ELSE IF r.body = "unparsable" THEN "invalid"
  ELSE IF r.body = "error_already" THEN "already"
  ELSE "invalid"

\* the second request of handleLoginAttempt returns
LoginProbeComplete ==
  /\ loginPc = "probe"
  /\ loginPc' = "idle"
  /\ \E r \in LoginResponses :
       IF loginMounted
       THEN /\ loginError' = probeError(r)
            /\ isAlreadyAuthenticated' = (probeError(r) = "already")
            /\ formLoading' = FALSE
       ELSE UNCHANGED <<loginError, isAlreadyAuthenticated, formLoading>>
  /\ UNCHANGED <<isAuthenticated, isLoading, checkPc, lastAuth, route, lastNav,
                 loginMounted, logoutPc>>
  /\ UNCHANGED <<browserVars, pageVars, tableVars, extraVars>>

\* "Continue to Admin" of the already-authenticated panel
ContinueToAdmin ==
  /\ route = "/admin/login"
  /\ AdminLoginView = "already"
  /\ route' = "/admin"
  /\ lastNav' = Nav("continue", "/admin")
  /\ LocalReset
  /\ UNCHANGED <<isAuthenticated, isLoading, checkPc, lastAuth, loginPc, logoutPc>>
  /\ UNCHANGED <<browserVars, pageVars, tableVars, extraVars>>

\* handleForceLogout, up to the await of logout()
ForceLogout ==
  /\ route = "/admin/login"
  /\ AdminLoginView = "already"
  /\ ~formLoading
  /\ loginPc = "idle" /\ logoutPc = "idle"
  /\ formLoading' = TRUE
  /\ loginMounted' = TRUE
  /\ logoutPc' = "force"
  /\ sentNow' = {Mutating("logout", 0, createHeaders, TRUE)}
  /\ UNCHANGED <<isAuthenticated, isLoading, checkPc, lastAuth, route, lastNav, loginPc,
                 loginError, isAlreadyAuthenticated>>
  /\ UNCHANGED <<documentCookie, pageVars, tableVars, extraVars>>

\* AdminNav's handleLogout, up to the await of logout(); AdminNav renders
\* nothing unless isAuthenticated
HandleLogout ==
  /\ isAuthenticated
  /\ logoutPc = "idle"
  /\ logoutPc' = "nav"
  /\ sentNow' = {Mutating("logout", 0, createHeaders, TRUE)}
  /\ UNCHANGED <<isAuthenticated, isLoading, checkPc, lastAuth, route, lastNav, loginPc,
                 loginMounted, formLoading, loginError, isAlreadyAuthenticated>>
  /\ UNCHANGED <<documentCookie, pageVars, tableVars, extraVars>>

\* logout() returns to handleLogout (which then pushes /admin/login) or to
\* handleForceLogout (which then clears the panel); a raise would skip both
LogoutComplete ==
  /\ logoutPc # "idle"
  /\ logoutPc' = "idle"
  /\ \E r \in LogoutResponses :
       LET out == logout(r) IN
       /\ isAuthenticated' = out.isAuthenticated
       /\ lastAuth' = [op |-> "logout", resp |-> r, ret |-> "none", raised |-> out.raised,
                       authBefore |-> isAuthenticated, loadingBefore |-> isLoading]
       /\ IF logoutPc = "nav" /\ ~out.raised
          THEN /\ route' = "/admin/login"
               /\ lastNav' = [by |-> "logout", to |-> "/admin/login",
                              isLoading |-> isLoading,
                              isAuthenticated |-> out.isAuthenticated]
               /\ UNCHANGED <<formLoading, loginError, isAlreadyAuthenticated, loginMounted>>
          ELSE /\ UNCHANGED <<route, lastNav, loginMounted>>
               /\ IF logoutPc = "force" /\ ~out.raised /\ loginMounted
                  THEN /\ isAlreadyAuthenticated' = FALSE
                       /\ loginError' = ""
                       /\ formLoading' = FALSE
                  ELSE UNCHANGED <<formLoading, loginError, isAlreadyAuthenticated>>
  /\ UNCHANGED <<isLoading, checkPc, loginPc>>
  /\ UNCHANGED <<browserVars, pageVars, tableVars, extraVars>>

AuthNext ==
  \/ CookieChange
  \/ CheckAuthStart
  \/ CheckAuthComplete
  \/ ProtectedRouteRedirect
  \/ LoginRedirectEffect
  \/ Navigate
  \/ PageReload
  \/ LoginSubmit
  \/ LoginComplete
  \/ LoginProbeComplete
  \/ ContinueToAdmin
  \/ ForceLogout
  \/ HandleLogout
  \/ LogoutComplete

\* C3: from mount until the first checkAuth has completed isLoading is true,
\* a guarded page shows only the loading placeholder (no protected content)
\* and the guard has issued no redirect.
C3_LoadingUntilFirstCheck ==
  checkPc # "done" =>
    /\ isLoading = TRUE
    /\ ProtectedRouteView = "loading"
    /\ lastNav.by # "guard"

C3_Witness ==
  /\ checkPc = "checking"
  /\ route \in GuardedRoutes
  /\ ProtectedRouteView = "loading"

C5_LoginOutcome ==
  lastAuth.op = "login" =>
    LET r == lastAuth.resp
        parsed == r.kind = "http" /\ r.body # "unparsable"
        success == parsed /\ ((r.ok /\ r.body = "success_true") \/ r.body = "error_already")
    IN /\ success => lastAuth.ret = "true" /\ isAuthenticated = TRUE
       /\ ~success => /\ lastAuth.ret = "false"
                      /\ isAuthenticated = lastAuth.authBefore
                      /\ isLoading = lastAuth.loadingBefore
       /\ ~lastAuth.raised

C5_Witness ==
  /\ lastAuth.op = "login"
  /\ lastAuth.resp = AuthResp(FALSE, "error_already")
  /\ lastAuth.ret = "true"
  /\ lastAuth.authBefore = FALSE
  /\ isAuthenticated = TRUE

\* C6: when logout has completed isAuthenticated is false whatever the
\* request's outcome, and logout raised nothing to its caller.
C6_LogoutAlwaysClears ==
  lastAuth.op = "logout" =>
    /\ isAuthenticated = FALSE
    /\ lastAuth.raised = FALSE

C6_Witness ==
  /\ lastAuth.op = "logout"
  /\ lastAuth.resp.kind = "transport"
  /\ lastAuth.authBefore = TRUE
  /\ isAuthenticated = FALSE

\* C28: a successful login is not overwritten by the mount-time checkAuth:
\* no login is in flight or returned before that checkAuth has completed, and
\* within one mount of AuthProvider isAuthenticated goes from true to false
\* only in logout().
C28_LoginNotOverwritten ==
  /\ []((loginPc # "idle" \/ lastAuth.op = "login") => (checkPc = "done" /\ ~isLoading))
  /\ [][(isAuthenticated /\ ~isAuthenticated') =>
          (lastAuth'.op = "logout" \/ checkPc' = "mounted")]_vars

C28_Witness ==
  /\ lastAuth.op = "login"
  /\ lastAuth.ret = "true"
  /\ lastAuth.authBefore = FALSE
  /\ isAuthenticated
  /\ checkPc = "done"
  /\ route = "/admin/articles"

\* C30: the redirects between the admin pages and the login page do not
\* loop.  A redirect to /admin/login (ProtectedRoute, handleLogout) is issued
\* with isLoading false and isAuthenticated false, a redirect to /admin
\* (AdminLogin's effect, the login submit) with isLoading false and
\* isAuthenticated true; a redirect lands on a page that redirects no
\* further; and the route always comes to rest again.
RedirectsToLogin == {"guard", "logout"}
RedirectsToAdmin == {"loginEffect", "submit"}

RouteAtRest ==
  /\ route = "/admin/login" => ~(~isLoading /\ isAuthenticated)
  /\ route \in GuardedRoutes => ProtectedRouteView # "redirect"

C30_NoRedirectLoop ==
  /\ [](lastNav.by \in RedirectsToLogin =>
          (lastNav.to = "/admin/login" /\ ~lastNav.isLoading /\ ~lastNav.isAuthenticated))
  /\ [](lastNav.by \in RedirectsToAdmin =>
          (lastNav.to = "/admin" /\ ~lastNav.isLoading /\ lastNav.isAuthenticated))
  /\ [][(lastNav' # lastNav /\ lastNav'.by \in RedirectsToLogin \cup RedirectsToAdmin)
          => RouteAtRest']_vars
  /\ []<>RouteAtRest

\* handleLogout's redirect has been issued and the login page stays
C30_Witness ==
  /\ lastNav.by = "logout"
  /\ lastAuth.op = "logout"
  /\ route = "/admin/login"
  /\ ~isAuthenticated
  /\ RouteAtRest

-----------------------------------------------------------------------------
(* ArticleTable: selection, row actions and bulk actions.  A status request *)
(* in flight is [id, action, by]: by "row" is awaited by updateArticleStatus,*)
(* by "bulk" by bulkUpdateStatus's Promise.all, by "orphan" by nobody (the  *)
(* Promise.all already rejected).  The set holds one request per            *)
(* [id, action, by]; a reload of the page aborts what is in flight.         *)

NumArticles == 2
MaxInflight == 2

ArticleIds == 1..NumArticles
StatusActions == {"approve", "reject"}

\* what comes back for POST /api/articles/<id>/<action>/
StatusResponses == {"ok", "http_error", "transport"}

StatusReq(id, action, by) == [id |-> id, action |-> action, by |-> by]

\* the status the API gives an article on a successful approve / reject
StatusAfter(action) == IF action = "approve" THEN "approved" ELSE "rejected"

\* The API's side of a status request: a 2xx answer means it was applied, an
\* error answer or a failed connection means it was not.
ServerApplies(req, r) ==
  IF r = "ok"
  THEN server' = [server EXCEPT ![req.id] = StatusAfter(req.action)]
  ELSE server' = server

\* the admin list as the API holds it, in id order
RECURSIVE ServerList(_, _)
ServerList(srv, n) ==
  IF n = 0 THEN <<>>
  ELSE Append(ServerList(srv, n - 1), [id |-> n, status |-> srv[n]])

LoadedIds == {articles[i].id : i \in 1..Len(articles)}
LoadedStatus(id) == articles[CHOOSE i \in 1..Len(articles) : articles[i].id = id].status

Orphaned(reqs) == {StatusReq(q.id, q.action, "orphan") : q \in reqs}

\* variant: the row handler reloads whatever the response was
rowReloads_always(r) == TRUE

\* updateArticleStatus: window.location.reload() only on response.ok
rowReloads(r) == r = "ok"

\* variant: bulkUpdateStatus without its first line
bulkReturnsEarly_never(sel) == FALSE

\* bulkUpdateStatus: if (selectedArticles.size === 0) return
bulkReturnsEarly(sel) == sel = {}

\* what the latest step of the table did: the handler or continuation, the
\* article and action it was about, the response it got ("" when none), the
\* size of the selection it found and the number of requests it issued
TableStep(op, id, action, resp, n, sent) ==
  [op |-> op, id |-> id, action |-> action, resp |-> resp, n |-> n, sent |-> sent]

\* the admin list the API returns for the page's status filter
AdminListFor(filter) ==
  SelectSeq(ServerList(server, NumArticles),
            LAMBDA a : filter = "" \/ a.status = filter)

AdminList == AdminListFor(statusFilter)

TableInit ==
  /\ server \in [ArticleIds -> Statuses]
  /\ statusFilter \in {"", "pending"}
  /\ articles = AdminList
  /\ selectedArticles = {}
  /\ loading = {}
  /\ inflight = {}
  /\ bulkPc = "idle"
  /\ bulkPending = {}
  /\ reloadPending = FALSE
  /\ lastTable = TableStep("mount", 0, "", "", 0, 0)

\* the table (and not the "No articles found" panel) is on screen
TableShown == Len(articles) # 0 /\ ~reloadPending

\* the header checkbox is clicked: onChange gets the opposite of `checked`
handleSelectAll ==
  /\ TableShown
  /\ LET checked == ~(Cardinality(selectedArticles) = Len(articles) /\ Len(articles) > 0)
     IN selectedArticles' = IF checked THEN LoadedIds ELSE {}
  /\ lastTable' = TableStep("handleSelectAll", 0, "", "", Cardinality(selectedArticles), 0)
  /\ UNCHANGED <<server, statusFilter, articles, loading, inflight, bulkPc, bulkPending,
                 reloadPending>>
  /\ UNCHANGED <<browserVars, pageVars, authVars, extraVars>>

\* a row's checkbox is clicked; every row has one, whatever its status
handleSelectArticle ==
  /\ TableShown
  /\ \E id \in LoadedIds :
       LET checked == id \notin selectedArticles
       IN /\ selectedArticles' = IF checked THEN selectedArticles \cup {id}
                                 ELSE selectedArticles \ {id}
          /\ lastTable' = TableStep("handleSelectArticle", id, "", "",
                                    Cardinality(selectedArticles), 0)
  /\ UNCHANGED <<server, statusFilter, articles, loading, inflight, bulkPc, bulkPending,
                 reloadPending>>
  /\ UNCHANGED <<browserVars, pageVars, authVars, extraVars>>

\* a row's Approve / Reject button: rendered for status 'pending' only and
\* disabled while loading has the id; updateArticleStatus up to its await
updateArticleStatus ==
  /\ TableShown
  /\ \E id \in LoadedIds, action \in StatusActions :
       /\ LoadedStatus(id) = "pending"
       /\ id \notin loading
       /\ StatusReq(id, action, "row") \notin inflight
       /\ Cardinality(inflight) < MaxInflight
       /\ loading' = loading \cup {id}
       /\ inflight' = inflight \cup {StatusReq(id, action, "row")}
       /\ sentNow' = {Mutating(action, id, contentTypeOnly, FALSE)}
       /\ lastTable' = TableStep("updateArticleStatus", id, action, "",
                                 Cardinality(selectedArticles), 1)
  /\ UNCHANGED <<server, statusFilter, articles, selectedArticles, bulkPc, bulkPending,
                 reloadPending>>
  /\ UNCHANGED <<documentCookie, pageVars, authVars, extraVars>>

\* updateArticleStatus after its await: reload on response.ok, log otherwise,
\* and in the finally take the id out of loading
updateArticleStatusSettle ==
  /\ ~reloadPending
  /\ \E req \in inflight, r \in StatusResponses :
       /\ req.by = "row"
       /\ ServerApplies(req, r)
       /\ inflight' = inflight \ {req}
       /\ reloadPending' = rowReloads(r)
       /\ loading' = loading \ {req.id}
       /\ lastTable' = TableStep("updateArticleStatusSettle", req.id, req.action, r,
                                 Cardinality(selectedArticles), 0)
  /\ UNCHANGED <<statusFilter, articles, selectedArticles, bulkPc, bulkPending>>
  /\ UNCHANGED <<browserVars, pageVars, authVars, extraVars>>

\* "Approve Selected" / "Reject Selected": the buttons are disabled while
\* loading is not empty.  The bar they sit in is rendered only while the
\* selection is not empty; the handler is taken as callable without it, so
\* that its own early return is covered.  bulkUpdateStatus up to its await:
\* nothing on an empty selection, else one request per selected id.
bulkUpdateStatus ==
  /\ TableShown
  /\ loading = {}
  /\ bulkPc = "idle"
  /\ \E action \in StatusActions :
       LET reqs == {StatusReq(id, action, "bulk") : id \in selectedArticles}
       IN IF bulkReturnsEarly(selectedArticles)
          THEN /\ lastTable' = TableStep("bulkUpdateStatus", 0, action, "",
                                         Cardinality(selectedArticles), 0)
               /\ UNCHANGED <<inflight, sentNow, loading, bulkPc, bulkPending,
                              reloadPending>>
          ELSE /\ Cardinality(inflight \cup reqs) <= MaxInflight
               /\ inflight' = inflight \cup reqs
               /\ sentNow' = {Mutating(action, id, contentTypeOnly, FALSE) :
                                id \in selectedArticles}
               /\ loading' = selectedArticles
               /\ bulkPending' = selectedArticles
               \* Promise.all of no promise is fulfilled at once
               /\ bulkPc' = IF selectedArticles = {} THEN "idle" ELSE "awaiting"
               /\ reloadPending' = (selectedArticles = {})
               /\ lastTable' = TableStep("bulkUpdateStatus", 0, action, "",
                                         Cardinality(selectedArticles), Cardinality(reqs))
  /\ UNCHANGED <<server, statusFilter, articles, selectedArticles>>
  /\ UNCHANGED <<documentCookie, pageVars, authVars, extraVars>>

\* One request of the awaited Promise.all settles.  A rejected fetch rejects
\* the Promise.all at once: catch, then finally setLoading(new Set()), with
\* the other requests still in flight.  A response (2xx or not) fulfils it;
\* when the last one is in, window.location.reload() and the finally.
bulkUpdateStatusSettle ==
  /\ ~reloadPending
  /\ bulkPc = "awaiting"
  /\ \E req \in inflight, r \in StatusResponses :
       /\ req.by = "bulk"
       /\ ServerApplies(req, r)
       /\ lastTable' = TableStep("bulkUpdateStatusSettle", req.id, req.action, r,
                                 Cardinality(selectedArticles), 0)
       /\ IF r = "transport"
          THEN /\ inflight' = Orphaned({q \in inflight \ {req} : q.by = "bulk"})
                                \cup {q \in inflight : q.by # "bulk"}
               /\ bulkPc' = "idle"
               /\ bulkPending' = {}
               /\ loading' = {}
               /\ UNCHANGED reloadPending
          ELSE /\ inflight' = inflight \ {req}
               /\ bulkPending' = bulkPending \ {req.id}
               /\ IF bulkPending \ {req.id} = {}
                  THEN /\ bulkPc' = "idle"
                       /\ reloadPending' = TRUE
                       /\ loading' = {}
                  ELSE UNCHANGED <<bulkPc, reloadPending, loading>>
  /\ UNCHANGED <<statusFilter, articles, selectedArticles>>
  /\ UNCHANGED <<browserVars, pageVars, authVars, extraVars>>

\* a request nobody awaits any more reaches (or fails to reach) the API
orphanSettle ==
  /\ ~reloadPending
  /\ \E req \in inflight, r \in StatusResponses :
       /\ req.by = "orphan"
       /\ ServerApplies(req, r)
       /\ inflight' = inflight \ {req}
  /\ UNCHANGED <<statusFilter, articles, selectedArticles, loading, bulkPc, bulkPending,
                 reloadPending, lastTable>>
  /\ UNCHANGED <<browserVars, pageVars, authVars, extraVars>>

\* window.location.reload(): the admin page is fetched again with the URL's
\* filter and rendered again, the table is mounted afresh with what
\* getArticles returned
TableReload ==
  /\ reloadPending
  /\ \E r \in ServerResponses(AdminList) :
       /\ articles' = getArticles_admin(r).val
       /\ lastTable' = TableStep(IF lastTable.op = "updateArticleStatusSettle"
                                 THEN "reloadAfterRow" ELSE "reloadAfterBulk",
                                 lastTable.id, lastTable.action,
                                 IF ListFetchFailed(r) THEN "failed" ELSE "loaded",
                                 0, 0)
  /\ selectedArticles' = {}
  /\ loading' = {}
  /\ inflight' = {}
  /\ bulkPc' = "idle"
  /\ bulkPending' = {}
  /\ reloadPending' = FALSE
  /\ sentNow' = {}
  /\ UNCHANGED <<server, statusFilter, documentCookie, pageVars, authVars, extraVars>>

\* the status filter is changed: router.push of the filter bar, the server
\* page renders again for the new searchParams and hands the mounted table a
\* new articles prop; the table's own state stays as it is
TableFilterChange ==
  /\ ~reloadPending
  /\ \E f \in {"", "pending"} \ {statusFilter} :
       /\ statusFilter' = f
       /\ \E r \in ServerResponses(AdminListFor(f)) :
            articles' = getArticles_admin(r).val
  /\ lastTable' = TableStep("filterChange", 0, "", "", Cardinality(selectedArticles), 0)
  /\ UNCHANGED <<server, selectedArticles, loading, inflight, bulkPc, bulkPending,
                 reloadPending>>
  /\ UNCHANGED <<browserVars, pageVars, authVars, extraVars>>

TableNext ==
  \/ handleSelectAll
  \/ handleSelectArticle
  \/ updateArticleStatus
  \/ updateArticleStatusSettle
  \/ bulkUpdateStatus
  \/ bulkUpdateStatusSettle
  \/ orphanSettle
  \/ TableReload

\* C2: every mutating request is sent with credentials included, carries
\* X-CSRFToken equal to the csrftoken cookie when the cookie is present, and
\* carries no X-CSRFToken when it is absent.
C2_MutatingCarryCsrf ==
  \A req \in sentNow :
    /\ req.credentials
    /\ req.cookiePresent => <<"X-CSRFToken", req.cookie>> \in req.headers
    /\ ~req.cookiePresent => ~\E h \in req.headers : h[1] = "X-CSRFToken"

\* C10: no approve or reject request is sent for an article whose loaded
\* status is already approved or rejected.
C10_NoRequestForDecided ==
  \A req \in sentNow :
    req.ep \in StatusActions => LoadedStatus(req.id) = "pending"

C12_BulkOnePerIdThenReload ==
  LET bulkReqs == {q \in inflight : q.by = "bulk"} IN
  /\ (lastTable.op = "bulkUpdateStatus" /\ lastTable.n > 0) =>
       /\ {q.id : q \in bulkReqs} = selectedArticles
       /\ Cardinality(bulkReqs) = lastTable.n
       /\ lastTable.sent = lastTable.n
       /\ ~reloadPending
  /\ (lastTable.op = "bulkUpdateStatusSettle" /\ reloadPending) =>
       \A q \in inflight : q.by \notin {"bulk", "orphan"}
  /\ (lastTable.op = "bulkUpdateStatusSettle" /\ bulkPc = "idle") => reloadPending

\* C13: bulk approve / reject on an empty selection issues no request,
\* requests no reload and leaves the selection and the loading set as they
\* were (empty).
C13_EmptyBulkIsNoOp ==
  (lastTable.op = "bulkUpdateStatus" /\ lastTable.n = 0) =>
    /\ lastTable.sent = 0
    /\ \A q \in inflight : q.by # "bulk"
    /\ bulkPc = "idle"
    /\ ~reloadPending
    /\ selectedArticles = {}
    /\ loading = {}

C13_Witness ==
  /\ lastTable.op = "bulkUpdateStatus"
  /\ lastTable.n = 0
  /\ selectedArticles = {}
  /\ Len(articles) > 0
  /\ inflight # {}

\* C25: in every state of the table the loading set is the set of the ids
\* with a status request in flight, and no article has two status requests
\* in flight.
InflightIds == {q.id : q \in inflight}

C25_LoadingIsInflight ==
  ~reloadPending =>
    /\ loading = InflightIds
    /\ \A q1, q2 \in inflight : q1.id = q2.id => q1 = q2

\* the table with the filter bar beside it
TableNavNext ==
  \/ TableNext
  \/ TableFilterChange

\* C26: the selection holds ids of displayed articles only, the ids a bulk
\* action sends are ids of displayed articles, and the header checkbox is
\* checked exactly when every displayed article is selected.
selectAllChecked == Cardinality(selectedArticles) = Len(articles) /\ Len(articles) > 0

C26_SelectionIsDisplayed ==
  /\ selectedArticles \subseteq LoadedIds
  /\ {q.id : q \in {r \in inflight : r.by = "bulk"}} \subseteq LoadedIds
  /\ TableShown => (selectAllChecked <=> (LoadedIds # {} /\ LoadedIds \subseteq selectedArticles))

-----------------------------------------------------------------------------
(* SearchAndFilter: the public listing's filter state and its address       *)

MaxHistory == 3

FilterSite == "a"
FilterTerms == {"", "a", "a b"}
FilterCategories == {"all", "tech"}

\* encodeURIComponent, used by getArticles for the request's query
encodeURIComponent(v) == IF v = "a b" THEN "a%20b" ELSE v
\* URLSearchParams.toString(): form encoding, a space becomes '+'
formEncode(v) == IF v = "a b" THEN "a+b" ELSE v
\* what a query parser makes of an encoded value
queryDecode(w) == IF w \in {"a+b", "a%20b"} THEN "a b" ELSE w

paramsDelete(q, name) == {pr \in q : pr[1] # name}
paramsSet(q, name, v) == paramsDelete(q, name) \cup {<<name, formEncode(v)>>}
\* searchParams.<name>: the decoded value, undefined (falsy, here "") when absent
paramOf(q, name) == IF QueryHas(q, name) THEN queryDecode(QueryVal(q, name)) ELSE ""

\* the addresses a visitor can open /{site} with
UrlQueries ==
  {s \cup c : s \in {{}} \cup {{<<"search", v>>} : v \in {"", "a", "a+b", "a%20b"}},
              c \in {{}} \cup {{<<"category", v>>} : v \in {"", "all", "tech"}}}

\* the URL effect's params after its set / delete calls; the mutant sets the
\* search parameter whatever the term is
effectParams_alwaysSet(q, term, cat) ==
  LET p1 == paramsSet(q, "search", term)
  IN IF cat # "" /\ cat # "all" THEN paramsSet(p1, "category", cat)
     ELSE paramsDelete(p1, "category")

effectParams(q, term, cat) ==
  LET p1 == IF term # "" THEN paramsSet(q, "search", term)
            ELSE paramsDelete(q, "search")
  IN IF cat # "" /\ cat # "all" THEN paramsSet(p1, "category", cat)
     ELSE paramsDelete(p1, "category")

\* useState(currentSearch || ''), useState(currentCategory || 'all')
initialSearchTerm(q) == paramOf(q, "search")
initialCategory(q) == IF paramOf(q, "category") = "" THEN "all" ELSE paramOf(q, "category")

\* the articles request SitePage issues for the address q
sitePageQuery(q) ==
  listingQuery(FilterSite, encodeURIComponent(paramOf(q, "search")),
               encodeURIComponent(paramOf(q, "category")))

\* the filter values an address stands for
UrlFilter(q) ==
  [search |-> paramOf(q, "search"),
   category |-> IF paramOf(q, "category") \in {"", "all"} THEN "all"
                ELSE paramOf(q, "category")]

NoTarget == [search |-> "none", category |-> "none"]
FilterStep(op) == [op |-> op]

\* the page is opened at some address: SearchAndFilter mounts, its state
\* comes from the props, the mount effect and the first render are due
FilterInit ==
  /\ urlQuery \in UrlQueries
  /\ history = <<urlQuery>>
  /\ histIdx = 1
  /\ searchTerm = initialSearchTerm(urlQuery)
  /\ selectedCategory = initialCategory(urlQuery)
  /\ effectPending = TRUE
  /\ fetchPending = TRUE
  /\ lastFetchQ = {}
  /\ navTarget = UrlFilter(urlQuery)
  /\ lastFilter = FilterStep("open")

FilterInteractive == ~effectPending /\ Len(history) < MaxHistory

\* handleSearchChange: setSearchTerm(e.target.value)
handleSearchChange ==
  /\ FilterInteractive
  /\ \E v \in FilterTerms \ {searchTerm} :
       searchTerm' = v
  /\ effectPending' = TRUE
  /\ navTarget' = NoTarget
  /\ lastFilter' = FilterStep("handleSearchChange")
  /\ UNCHANGED <<urlQuery, history, histIdx, selectedCategory, fetchPending, lastFetchQ>>
  /\ UNCHANGED notFilterVars

\* handleCategoryChange: setSelectedCategory(e.target.value)
handleCategoryChange ==
  /\ FilterInteractive
  /\ \E c \in FilterCategories \ {selectedCategory} :
       selectedCategory' = c
  /\ effectPending' = TRUE
  /\ navTarget' = NoTarget
  /\ lastFilter' = FilterStep("handleCategoryChange")
  /\ UNCHANGED <<urlQuery, history, histIdx, searchTerm, fetchPending, lastFetchQ>>
  /\ UNCHANGED notFilterVars

\* clearFilters, offered while a filter is active
clearFilters ==
  /\ FilterInteractive
  /\ searchTerm # "" \/ (selectedCategory # "" /\ selectedCategory # "all")
  /\ searchTerm' = ""
  /\ selectedCategory' = "all"
  /\ effectPending' = TRUE
  /\ navTarget' = NoTarget
  /\ lastFilter' = FilterStep("clearFilters")
  /\ UNCHANGED <<urlQuery, history, histIdx, fetchPending, lastFetchQ>>
  /\ UNCHANGED notFilterVars

\* the URL effect: params from the current address, set / delete by the
\* component's state, router.push(newUrl).  A push to the address already
\* shown leaves the address and searchParams as they are.
UrlEffect ==
  /\ effectPending
  /\ LET newQ == effectParams(urlQuery, searchTerm, selectedCategory) IN
       IF newQ = urlQuery
       THEN /\ effectPending' = FALSE
            /\ UNCHANGED <<urlQuery, history, histIdx, fetchPending>>
       ELSE /\ urlQuery' = newQ
            /\ history' = Append(SubSeq(history, 1, histIdx), newQ)
            /\ histIdx' = histIdx + 1
            /\ effectPending' = TRUE
            /\ fetchPending' = TRUE
  /\ lastFilter' = FilterStep("UrlEffect")
  /\ UNCHANGED <<searchTerm, selectedCategory, lastFetchQ, navTarget>>
  /\ UNCHANGED notFilterVars

\* SitePage renders for the current address: getArticles(site, search, category)
SitePageFetch ==
  /\ fetchPending
  /\ lastFetchQ' = sitePageQuery(urlQuery)
  /\ fetchPending' = FALSE
  /\ lastFilter' = FilterStep("SitePageFetch")
  /\ UNCHANGED <<urlQuery, history, histIdx, searchTerm, selectedCategory,
                 effectPending, navTarget>>
  /\ UNCHANGED notFilterVars

\* back / forward: the address becomes another history entry; the component
\* stays mounted with its state, useSearchParams() yields a new object
HistoryGo ==
  /\ ~effectPending
  /\ \E i \in {histIdx - 1, histIdx + 1} :
       /\ i \in 1..Len(history)
       /\ histIdx' = i
       /\ urlQuery' = history[i]
       /\ navTarget' = UrlFilter(history[i])
       /\ effectPending' = (history[i] # urlQuery)
  /\ fetchPending' = TRUE
  /\ lastFilter' = FilterStep("HistoryGo")
  /\ UNCHANGED <<history, searchTerm, selectedCategory, lastFetchQ>>
  /\ UNCHANGED notFilterVars

\* reload of the tab: the component mounts anew from the address
FilterReload ==
  /\ ~effectPending
  /\ searchTerm' = initialSearchTerm(urlQuery)
  /\ selectedCategory' = initialCategory(urlQuery)
  /\ effectPending' = TRUE
  /\ fetchPending' = TRUE
  /\ navTarget' = UrlFilter(urlQuery)
  /\ lastFilter' = FilterStep("FilterReload")
  /\ UNCHANGED <<urlQuery, history, histIdx, lastFetchQ>>
  /\ UNCHANGED notFilterVars

FilterNext ==
  \/ handleSearchChange
  \/ handleCategoryChange
  \/ clearFilters
  \/ UrlEffect
  \/ SitePageFetch
  \/ HistoryGo
  \/ FilterReload

\* C14: once the URL effect has run, the address carries search=s exactly
\* when the search term s is non-empty and category=c exactly when the
\* selected category c is not 'all'; the request SitePage issues for an
\* address carries the address's non-empty search and its category other than
\* 'all' and never an empty parameter; and when nothing is pending the last
\* request carries the component's search term and category.
C14_FilterInUrlAndFetch ==
  /\ lastFilter.op = "UrlEffect" =>
       /\ QueryHas(urlQuery, "search") <=> searchTerm # ""
       /\ searchTerm # "" => paramOf(urlQuery, "search") = searchTerm
       /\ QueryHas(urlQuery, "category") <=> selectedCategory # "all"
       /\ selectedCategory # "all" => paramOf(urlQuery, "category") = selectedCategory
  /\ lastFilter.op = "SitePageFetch" =>
       /\ QueryHas(lastFetchQ, "search") <=> paramOf(urlQuery, "search") # ""
       /\ QueryHas(lastFetchQ, "category") <=> paramOf(urlQuery, "category") \notin {"", "all"}
       /\ \A pr \in lastFetchQ : pr[2] # ""
       /\ paramOf(lastFetchQ, "search") = paramOf(urlQuery, "search")
  /\ (~effectPending /\ ~fetchPending) =>
       /\ paramOf(lastFetchQ, "search") = searchTerm
       /\ QueryHas(lastFetchQ, "search") <=> searchTerm # ""
       /\ QueryHas(lastFetchQ, "category") <=> selectedCategory # "all"
       /\ selectedCategory # "all" => paramOf(lastFetchQ, "category") = selectedCategory

C14_Witness ==
  /\ ~effectPending
  /\ ~fetchPending
  /\ searchTerm = ""
  /\ selectedCategory = "all"
  /\ urlQuery = {}
  /\ Len(history) = 3
  /\ paramOf(history[2], "search") = "a b"
  /\ lastFetchQ = listingQuery(FilterSite, "", "")

\* C15: while the address is the one a load, a reload or a history step
\* made current, it keeps that address's filter values, and the request
\* SitePage issued for it carries them.
C15_UrlFilterSurvivesNavigation ==
  navTarget # NoTarget =>
    /\ UrlFilter(urlQuery) = navTarget
    /\ ~fetchPending =>
         lastFetchQ = listingQuery(FilterSite, encodeURIComponent(navTarget.search),
                                   encodeURIComponent(navTarget.category))

-----------------------------------------------------------------------------
(* AdminDashboard: the five counts *)

MaxCount == 1

StatNames == {"totalArticles", "pendingArticles", "approvedArticles",
              "rejectedArticles", "totalSites"}

\* what one count request can end in: a fulfilled fetch whose JSON is an
\* object with `count`, a bare array, an error object of a non-2xx status,
\* null, a body res.json() rejects, or a rejected fetch
CountKinds == {"count", "array", "http_error", "null", "unparsable", "transport"}
CountResp(kind, n) == [kind |-> kind, count |-> n]
NoCountResps == [k \in StatNames |-> CountResp("none", 0)]

ZeroStats == [k \in StatNames |-> 0]

\* the request rejects the promise getDashboardStats awaits (fetch or
\* r.json() rejected)
countRejects(r) == r.kind \in {"transport", "unparsable"}

\* `x.count || 0` of the parsed body; reading .count of null throws
countOf(r) == IF r.kind = "count" THEN r.count ELSE 0

\* getDashboardStats: one try / catch around the joined requests and the
\* reads of .count
getDashboardStats(rs) ==
  IF \E k \in StatNames : countRejects(rs[k]) THEN ZeroStats
  ELSE IF \E k \in StatNames : rs[k].kind = "null" THEN ZeroStats
  ELSE [k \in StatNames |-> countOf(rs[k])]

\* what AdminDashboard renders
DashboardView == IF dashIsLoading THEN "loading" ELSE "stats"

\* the counts the API holds: the total is the sum of the three statuses
DashTruths ==
  {[totalArticles |-> p + a + r, pendingArticles |-> p, approvedArticles |-> a,
    rejectedArticles |-> r, totalSites |-> n] : p, a, r, n \in 0..MaxCount}

DashInit ==
  /\ dashTruth \in DashTruths
  /\ dashPc = "mounted"
  /\ dashResps = NoCountResps
  /\ stats = ZeroStats
  /\ dashIsLoading = TRUE

\* the mount effect: loadStats() sets isLoading and awaits getDashboardStats()
loadStats ==
  /\ dashPc = "mounted"
  /\ dashPc' = "loading"
  /\ dashIsLoading' = TRUE
  /\ UNCHANGED <<dashTruth, dashResps, stats>>
  /\ UNCHANGED notDashVars

\* getDashboardStats() settles; loadStats stores the result and clears isLoading
loadStatsSettle ==
  /\ dashPc = "loading"
  /\ \E kinds \in [StatNames -> CountKinds] :
       LET rs == [k \in StatNames |->
                    CountResp(kinds[k], IF kinds[k] = "count" THEN dashTruth[k] ELSE 0)]
       IN /\ dashResps' = rs
          /\ stats' = getDashboardStats(rs)
  /\ dashIsLoading' = FALSE
  /\ dashPc' = "done"
  /\ UNCHANGED dashTruth
  /\ UNCHANGED notDashVars

\* the dashboard is left and opened again: a new instance mounts
DashRemount ==
  /\ dashPc = "done"
  /\ dashPc' = "mounted"
  /\ dashResps' = NoCountResps
  /\ stats' = ZeroStats
  /\ dashIsLoading' = TRUE
  /\ UNCHANGED dashTruth
  /\ UNCHANGED notDashVars

DashNext ==
  \/ loadStats
  \/ loadStatsSettle
  \/ DashRemount

\* the count request failed: rejected fetch, error status, or no JSON body
CountFailed(r) == r.kind \in {"transport", "http_error", "unparsable"}

\* C18: once loadStats has finished, isLoading is false, the dashboard shows
\* its counts (there is no error state), every count whose request failed is
\* zero and every count whose response carried a count shows that count.
C18_DashboardPartialFailure ==
  dashPc = "done" =>
    /\ ~dashIsLoading
    /\ DashboardView = "stats"
    /\ \A k \in StatNames :
         /\ CountFailed(dashResps[k]) => stats[k] = 0
         /\ dashResps[k].kind = "count" => stats[k] = dashResps[k].count

-----------------------------------------------------------------------------
(* AIContentPage: generate, then save the result as an article *)

MaxTopicFetches == 2

\* lengths of the topics list the API may return (limit=3)
TopicCounts == {0, 2, 3}

\* variant: the handlers without their finally
generatingAfterFinally_kept == TRUE

\* finally { setIsGenerating(false) } of both generate handlers
generatingAfterFinally == FALSE

\* a response of the generate / createArticle request: rejected fetch, or a
\* status with a body that res.json() parses or rejects
AiResp(kind, ok, parsable) == [kind |-> kind, ok |-> ok, parsable |-> parsable]
AiResponses ==
  {AiResp("transport", FALSE, FALSE)}
    \cup {AiResp("http", ok, parsable) : ok \in BOOLEAN, parsable \in BOOLEAN}
\* the topics request: rejected fetch, or a body that parses or not
TopicsResponses == {"transport", "unparsable", "json"}

NoAiReqs == [generate |-> 0, createArticle |-> 0]
NoAiOutcome == [generate |-> "none", save |-> "none"]

\* generateStructuredContent after `await fetch` and `await response.json()`:
\* "ok" (the if branch), "error" (the else branch), "catch"
generateBranch(r) ==
  IF r.kind = "transport" \/ ~r.parsable THEN "catch"
  ELSE IF r.ok THEN "ok" ELSE "error"

\* what saveGeneratedArticle appends to the message: the saved id after an ok
\* response, the warning in the else branch and in the catch
savePart(r) ==
  IF r.kind = "transport" \/ ~r.parsable THEN <<"warning">>
  ELSE IF r.ok THEN <<"saved">> ELSE <<"warning">>

\* createArticle failed: error status or transport failure
SaveFailed(r) == r.kind = "transport" \/ ~r.ok

AiInit ==
  /\ selectedSite \in {"", "a"}
  /\ aiPc = "idle"
  /\ isGenerating = FALSE
  /\ message = <<>>
  /\ generatedArticle = "null"
  /\ topicsInFlight = 0
  /\ topicsLoading = FALSE
  /\ aiReqs = NoAiReqs
  /\ aiOutcome = NoAiOutcome
  /\ topics = 0
  /\ aiBy = "none"

\* the site select's onChange
setSelectedSite ==
  /\ aiPc = "idle"
  /\ \E v \in {"", "a"} \ {selectedSite} : selectedSite' = v
  /\ UNCHANGED <<aiPc, isGenerating, message, generatedArticle, topicsInFlight,
                 topicsLoading, aiReqs, aiOutcome>>
  /\ UNCHANGED <<topics, aiBy>>
  /\ UNCHANGED notAiVars

\* fetchTrendingTopics from the refresh button (disabled while isLoading)
fetchTrendingTopics ==
  /\ selectedSite # ""
  /\ ~topicsLoading
  /\ topicsInFlight < MaxTopicFetches
  /\ topicsLoading' = TRUE
  /\ topicsInFlight' = topicsInFlight + 1
  /\ UNCHANGED <<selectedSite, aiPc, isGenerating, message, generatedArticle,
                 aiReqs, aiOutcome>>
  /\ UNCHANGED <<topics, aiBy>>
  /\ UNCHANGED notAiVars

\* a fetchTrendingTopics call gets its response: the catch replaces the message
fetchTrendingTopicsSettle ==
  /\ topicsInFlight > 0
  /\ \E r \in TopicsResponses :
       /\ message' = IF r \in {"transport", "unparsable"} THEN <<"topics_error">> ELSE message
       /\ IF r = "json" THEN topics' \in TopicCounts ELSE topics' = topics
  /\ topicsInFlight' = topicsInFlight - 1
  /\ topicsLoading' = FALSE
  /\ UNCHANGED <<selectedSite, aiPc, isGenerating, generatedArticle, aiReqs, aiOutcome>>
  /\ UNCHANGED aiBy
  /\ UNCHANGED notAiVars

\* generateStructuredContent up to its `await fetch` (button disabled while
\* isGenerating)
generateStructuredContent ==
  /\ ~isGenerating
  /\ IF selectedSite = ""
     THEN /\ message' = <<"select_site">>
          /\ UNCHANGED <<aiPc, isGenerating, generatedArticle, aiReqs, aiOutcome, aiBy>>
     ELSE /\ isGenerating' = TRUE
          /\ message' = <<>>
          /\ generatedArticle' = "null"
          /\ aiPc' = "generating"
          /\ aiReqs' = [NoAiReqs EXCEPT !.generate = 1]
          /\ aiOutcome' = NoAiOutcome
          /\ aiBy' = "generateStructuredContent"
  /\ UNCHANGED <<selectedSite, topicsInFlight, topicsLoading>>
  /\ UNCHANGED topics
  /\ UNCHANGED notAiVars

\* generateDailyTop3 up to its `await fetch`: the button is rendered with
\* three topics or more and disabled while isGenerating; the handler checks
\* the site and the number of topics again
generateDailyTop3 ==
  /\ selectedSite # ""
  /\ topics >= 3
  /\ ~isGenerating
  /\ isGenerating' = TRUE
  /\ message' = <<>>
  /\ generatedArticle' = "null"
  /\ aiPc' = "generating"
  /\ aiReqs' = [NoAiReqs EXCEPT !.generate = 1]
  /\ aiOutcome' = NoAiOutcome
  /\ aiBy' = "generateDailyTop3"
  /\ UNCHANGED <<selectedSite, topicsInFlight, topicsLoading, topics>>
  /\ UNCHANGED notAiVars

\* the generate response arrives: on success the message and the preview are
\* set and saveGeneratedArticle posts the article; otherwise the handler ends
generateSettle ==
  /\ aiPc = "generating"
  /\ \E r \in AiResponses :
       LET b == generateBranch(r) IN
       /\ aiOutcome' = [aiOutcome EXCEPT !.generate = b]
       /\ IF b = "ok"
          THEN /\ message' = <<"success">>
               /\ generatedArticle' = "article_data"
               /\ aiReqs' = [aiReqs EXCEPT !.createArticle = @ + 1]
               /\ aiPc' = "saving"
               /\ UNCHANGED isGenerating
          ELSE /\ message' = IF b = "error" THEN <<"generate_error">>
                             ELSE <<"generate_failed">>
               /\ isGenerating' = generatingAfterFinally
               /\ aiPc' = "idle"
               /\ UNCHANGED <<generatedArticle, aiReqs>>
  /\ UNCHANGED <<selectedSite, topicsInFlight, topicsLoading>>
  /\ UNCHANGED <<topics, aiBy>>
  /\ UNCHANGED notAiVars

\* the createArticle response arrives: saveGeneratedArticle appends to the
\* message, the handler calls fetchTrendingTopics() and its finally clears
\* isGenerating
saveSettle ==
  /\ aiPc = "saving"
  /\ topicsInFlight < MaxTopicFetches
  /\ \E r \in AiResponses :
       /\ message' = message \o savePart(r)
       /\ aiOutcome' = [aiOutcome EXCEPT !.save = IF SaveFailed(r) THEN "failed"
                                                  ELSE IF r.parsable THEN "saved"
                                                  ELSE "saved_unparsable"]
  /\ topicsLoading' = TRUE
  /\ topicsInFlight' = topicsInFlight + 1
  /\ isGenerating' = generatingAfterFinally
  /\ aiPc' = "idle"
  /\ UNCHANGED <<selectedSite, generatedArticle, aiReqs>>
  /\ UNCHANGED <<topics, aiBy>>
  /\ UNCHANGED notAiVars

AiNext ==
  \/ setSelectedSite
  \/ fetchTrendingTopics
  \/ fetchTrendingTopicsSettle
  \/ generateStructuredContent
  \/ generateDailyTop3
  \/ generateSettle
  \/ saveSettle

\* C19: after a run whose generate succeeded and whose createArticle failed,
\* the generated article is still the preview, the message is the success
\* text with the warning appended, the run issued one generate and one
\* createArticle request and no more, and isGenerating is false.
C19_SaveFailureKeepsPreview ==
  (aiPc = "idle" /\ aiOutcome.generate = "ok" /\ aiOutcome.save = "failed") =>
    /\ generatedArticle = "article_data"
    /\ message = <<"success", "warning">>
    /\ aiReqs = [generate |-> 1, createArticle |-> 1]
    /\ ~isGenerating

\* C29: isGenerating is true exactly while a generation (the generate request
\* and the save that follows it) is in progress, whichever of the two
\* handlers started it; a generation starts only when none is in progress;
\* and when one has ended, with whatever outcome, isGenerating is false.
GenerationInProgress == aiPc \in {"generating", "saving"}

C29_GeneratingIffInProgress ==
  /\ [](isGenerating <=> GenerationInProgress)
  /\ [](GenerationInProgress <=> aiOutcome.save = "none" /\ aiOutcome.generate \in {"none", "ok"}
                                  /\ aiReqs.generate = 1)
  /\ [][(aiReqs' # aiReqs /\ aiReqs'.generate = 1 /\ aiReqs'.createArticle = 0)
          => (~isGenerating /\ ~GenerationInProgress)]_vars

C29_Witness ==
  /\ aiBy = "generateDailyTop3"
  /\ aiPc = "saving"
  /\ isGenerating

-----------------------------------------------------------------------------
(* The two renderings of a generation result: renderSection (preview) and   *)
(* convertSectionsToHtml (stored body).  An element is written as a record  *)
(* of its tag, its text, its link target ("" for no link) and its items;    *)
(* class names are left out.  level 0, url "", style "" and the empty       *)
(* category / source stand for an absent (falsy) field.                     *)

MaxSections == 2
MaxItems == 2

SectionLevels == {0, 1, 3, 6, 7}
SectionUrls == {"", "u1"}
ListStyles == {"", "ordered", "unordered"}

ListItem == [content : {"i1"}, url : SectionUrls]
ItemSeqs == UNION {[1..k -> ListItem] : k \in 0..MaxItems}

Section(type, level, url, style, items, category, source) ==
  [type |-> type, level |-> level, content |-> "c1", url |-> url, style |-> style,
   items |-> items, category |-> category, source |-> source]

ArticleSections ==
  {Section("heading", l, u, "", <<>>, "", "") : l \in SectionLevels, u \in SectionUrls}
    \cup {Section("paragraph", 0, "", "", <<>>, "", "")}
    \cup {Section("list", 0, "", st, it, "", "") : st \in ListStyles, it \in ItemSeqs}
    \cup {Section("metadata", 0, u, "", <<>>, c, so) :
            u \in SectionUrls, c \in {"", "cat"}, so \in {"", "src"}}
    \cup {Section("quote", 0, "", "", <<>>, "", "")}

Element(tag, text, href, items) == [tag |-> tag, text |-> text, href |-> href, items |-> items]

\* const level = section.level || 2
levelOrDefault(section) == IF section.level = 0 THEN 2 ELSE section.level

\* the <li> elements of a list section, the same in both renderings
listItems(section) ==
  [i \in 1..Len(section.items) |->
     Element(<<"li">>, section.items[i].content, section.items[i].url, <<>>)]

\* the children of a metadata block
metadataChildren(section) ==
  (IF section.category # "" THEN <<Element(<<"span">>, section.category, "", <<>>)>>
   ELSE <<>>)
  \o (IF section.source # ""
      THEN <<Element(<<"span">>, section.source, section.url, <<>>)>>
      ELSE <<>>)

\* renderSection: the element of one section, <<>> for `null`
renderSection(section) ==
  CASE section.type = "heading" ->
         LET level == levelOrDefault(section)
             tag == IF level \in 1..6 THEN <<"h", level>> ELSE <<"h", 2>>
         IN <<Element(tag, section.content, section.url, <<>>)>>
    [] section.type = "paragraph" ->
         <<Element(<<"p">>, section.content, "", <<>>)>>
    [] section.type = "list" ->
         <<Element(IF section.style = "ordered" THEN <<"ol">> ELSE <<"ul">>,
                   "", "", listItems(section))>>
    [] section.type = "metadata" ->
         <<Element(<<"div">>, "", "", metadataChildren(section))>>
    [] OTHER -> <<>>

\* one round of convertSectionsToHtml's loop: what it pushes to htmlParts
sectionHtml(section) ==
  CASE section.type = "heading" ->
         <<Element(<<"h", levelOrDefault(section)>>, section.content, section.url, <<>>)>>
    [] section.type = "paragraph" ->
         <<Element(<<"p">>, section.content, "", <<>>)>>
    [] section.type = "list" ->
         <<Element(IF section.style = "ordered" THEN <<"ol">> ELSE <<"ul">>,
                   "", "", listItems(section))>>
    [] section.type = "metadata" ->
         <<Element(<<"div">>, "", "", metadataChildren(section))>>
    [] OTHER -> <<>>

RECURSIVE convertSectionsToHtml(_)
convertSectionsToHtml(secs) ==
  IF secs = <<>> THEN <<>>
  ELSE sectionHtml(Head(secs)) \o convertSectionsToHtml(Tail(secs))

\* generatedArticle.sections.map((section, index) => renderSection(section, index))
RECURSIVE renderSections(_)
renderSections(secs) ==
  IF secs = <<>> THEN <<>>
  ELSE renderSection(Head(secs)) \o renderSections(Tail(secs))

NotRendered == [done |-> FALSE, elems |-> <<>>]
Rendered(elems) == [done |-> TRUE, elems |-> elems]

SectionsInit ==
  /\ sections \in UNION {[1..k -> ArticleSections] : k \in 0..MaxSections}
  /\ previewDom = NotRendered
  /\ bodyHtml = NotRendered

\* the page renders the preview of generatedArticle
RenderPreview ==
  /\ ~previewDom.done
  /\ previewDom' = Rendered(renderSections(sections))
  /\ UNCHANGED <<sections, bodyHtml>>
  /\ UNCHANGED notSectVars

\* saveGeneratedArticle computes the body it stores
ConvertForStorage ==
  /\ ~bodyHtml.done
  /\ bodyHtml' = Rendered(convertSectionsToHtml(sections))
  /\ UNCHANGED <<sections, previewDom>>
  /\ UNCHANGED notSectVars

\* setGeneratedArticle(null) of the next generation
ClearPreview ==
  /\ previewDom.done
  /\ bodyHtml.done
  /\ previewDom' = NotRendered
  /\ bodyHtml' = NotRendered
  /\ UNCHANGED sections
  /\ UNCHANGED notSectVars

SectionsNext ==
  \/ RenderPreview
  \/ ConvertForStorage
  \/ ClearPreview

\* C20: once a generation result has been rendered both ways, the preview
\* and the stored body hold, section by section, the same elements: the same
\* tag (heading level, p, ol / ul, div), the same items in the same order,
\* the same link targets; a section of an unknown type adds nothing to either.
C20_PreviewEqualsStored ==
  (previewDom.done /\ bodyHtml.done) =>
    /\ previewDom.elems = bodyHtml.elems
    /\ \A i \in 1..Len(sections) :
         /\ renderSection(sections[i]) = sectionHtml(sections[i])
         /\ sections[i].type = "quote" =>
              (renderSection(sections[i]) = <<>> /\ sectionHtml(sections[i]) = <<>>)

-----------------------------------------------------------------------------
(* createSlug: the slug of a generated article.  A title is a sequence of   *)
(* characters; the clock counts in ticks of which TicksPerSecond make one   *)
(* second (the ISO timestamp is cut after its seconds).                     *)

MaxTitleLen == 2
MaxPosts == 2
MaxClock == 3
TicksPerSecond == 2

TitleChars == {"A", "a", " ", "-", "!"}
Titles == UNION {[1..k -> TitleChars] : k \in 0..MaxTitleLen}

\* .toLowerCase()
toLowerCase(t) == [i \in 1..Len(t) |-> IF t[i] = "A" THEN "a" ELSE t[i]]
\* .replace(/[^\w\s-]/g, '')
dropNonWord(t) == SelectSeq(t, LAMBDA ch : ch \in {"A", "a", " ", "-"})
\* .replace(/[-\s]+/g, '-'): every run of hyphens and spaces becomes one hyphen
RECURSIVE collapseRuns(_)
collapseRuns(t) ==
  IF t = <<>> THEN <<>>
  ELSE IF Head(t) \in {"-", " "}
       THEN IF Len(t) > 1 /\ t[2] \in {"-", " "} THEN collapseRuns(Tail(t))
            ELSE <<"-">> \o collapseRuns(Tail(t))
  ELSE <<Head(t)>> \o collapseRuns(Tail(t))
\* .replace(/^-+|-+$/g, '')
RECURSIVE stripHyphens(_)
stripHyphens(t) ==
  IF t = <<>> THEN <<>>
  ELSE IF Head(t) = "-" THEN stripHyphens(Tail(t))
  ELSE IF t[Len(t)] = "-" THEN stripHyphens(SubSeq(t, 1, Len(t) - 1))
  ELSE t
\* .substring(0, 150)
substring150(t) == SubSeq(t, 1, IF Len(t) < 150 THEN Len(t) ELSE 150)

baseSlug(title) == substring150(stripHyphens(collapseRuns(dropNonWord(toLowerCase(title)))))

\* new Date().toISOString().replace(/[^0-9]/g, '').slice(0, 14): the digits
\* down to the seconds, the milliseconds are cut off
timestamp(now) == now \div TicksPerSecond

createSlug(title, now) == [base |-> baseSlug(title), stamp |-> timestamp(now)]

SlugInit ==
  /\ slugClock = 0
  /\ posted = <<>>

\* time passes
SlugClockTick ==
  /\ slugClock < MaxClock
  /\ slugClock' = slugClock + 1
  /\ UNCHANGED posted
  /\ UNCHANGED notSlugVars

\* saveGeneratedArticle builds the body of its POST /api/articles/
postGeneratedArticle ==
  /\ Len(posted) < MaxPosts
  /\ \E title \in Titles :
       posted' = Append(posted, [title |-> title, slug |-> createSlug(title, slugClock),
                                 at |-> slugClock])
  /\ UNCHANGED slugClock
  /\ UNCHANGED notSlugVars

SlugNext ==
  \/ SlugClockTick
  \/ postGeneratedArticle

\* C21: any two articles posted at different instants carry different slugs,
\* whatever their titles.
C21_SlugsPairwiseDistinct ==
  \A i, j \in 1..Len(posted) :
    (i # j /\ posted[i].at # posted[j].at) => posted[i].slug # posted[j].slug

-----------------------------------------------------------------------------
(* The client ArticlePage's load effect under changing params: every run of *)
(* the effect starts a loadData() of its own; nothing cancels an earlier    *)
(* one and no state update asks which run it belongs to.                    *)

MaxLoads == 3

DetailSlugs == {"x", "y"}
LoadOutcomes == {"found", "absent", "failed"}
Load(id, slug) == [id |-> id, slug |-> slug]

\* what loadData does to error / siteConfig / article for an outcome; the
\* state it does not set keeps its value
loadDataSets(outcome, slug, st) ==
  CASE outcome = "found" -> [st EXCEPT !.siteConfig = "config", !.article = slug]
    [] outcome = "absent" -> [st EXCEPT !.error = "Article not found"]
    [] outcome = "failed" -> [st EXCEPT !.error = "Failed to load article"]

\* what the client ArticlePage renders from its state
detailView(st) ==
  IF st.isLoading THEN "loading"
  ELSE IF st.error # "" \/ st.siteConfig = "null" \/ st.article = "null" THEN "not_found"
  ELSE st.article

\* what the page has to show for a request with this outcome
ViewOf(outcome, slug) == IF outcome = "found" THEN slug ELSE "not_found"

DetailInit ==
  /\ dMounted = TRUE
  /\ \E slug \in DetailSlugs :
       /\ dParams = slug
       /\ dLoads = {Load(1, slug)}
  /\ dStarted = 1
  /\ dState = [error |-> "", siteConfig |-> "null", article |-> "null", isLoading |-> TRUE]
  /\ dLatestOutcome = "none"
  /\ dLastSettle = "none"

\* the params prop changes: the effect runs again and calls loadData()
DetailParamsChange ==
  /\ dMounted
  /\ dStarted < MaxLoads
  /\ \E slug \in DetailSlugs \ {dParams} :
       /\ dParams' = slug
       /\ dLoads' = dLoads \cup {Load(dStarted + 1, slug)}
  /\ dStarted' = dStarted + 1
  /\ dLatestOutcome' = "none"
  /\ UNCHANGED <<dMounted, dState, dLastSettle>>
  /\ UNCHANGED notDetailVars

\* a loadData() gets its responses: its setState calls and its finally; the
\* updates of an unmounted component are dropped
DetailLoadSettle ==
  /\ \E l \in dLoads, outcome \in LoadOutcomes :
       /\ dLoads' = dLoads \ {l}
       /\ dState' = IF dMounted
                    THEN [loadDataSets(outcome, l.slug, dState) EXCEPT !.isLoading = FALSE]
                    ELSE dState
       /\ dLatestOutcome' = IF l.id = dStarted THEN outcome ELSE dLatestOutcome
       /\ dLastSettle' = IF dMounted THEN "mounted" ELSE "unmounted"
  /\ UNCHANGED <<dMounted, dParams, dStarted>>
  /\ UNCHANGED notDetailVars

\* the visitor leaves the page
DetailUnmount ==
  /\ dMounted
  /\ dMounted' = FALSE
  /\ UNCHANGED <<dParams, dLoads, dStarted, dState, dLatestOutcome, dLastSettle>>
  /\ UNCHANGED notDetailVars

DetailNext ==
  \/ DetailParamsChange
  \/ DetailLoadSettle
  \/ DetailUnmount

\* C22: once every load of the mounted detail page has settled, the page
\* shows what the load for its latest params yielded: that article, or
\* not-found when that load found none or failed.
C22_LatestRequestWins ==
  (dMounted /\ dLoads = {}) => detailView(dState) = ViewOf(dLatestOutcome, dParams)

-----------------------------------------------------------------------------
(* The load effect of the client admin ArticlesPage: useEffect with the     *)
(* dependencies [filters, articles.length], prevFiltersRef, loadData().     *)

MaxListLen == 2
\* the fetch counter stops counting here
MaxFetches == 3

LoadFilters == [site : {"", "a"}, status : {"", "draft"}]
NoLoadFilters == [site |-> "", status |-> ""]
NoLoad == [running |-> FALSE, filters |-> NoLoadFilters]
RunningLoad(f) == [running |-> TRUE, filters |-> f]

\* the effect runs again after a render when one of its dependencies,
\* filters (by identity) and articles.length, differs from the last render
lengthDepChanged_always(oldLen, newLen) == TRUE
lengthDepChanged(oldLen, newLen) == oldLen # newLen

\* which branch the effect body takes
effectLoads(prev, filters, len) ==
  IF prev # filters THEN "filtersChanged"
  ELSE IF len = 0 THEN "initialLoad"
  ELSE "nothing"

AdminSettled == ~aIsLoading /\ ~aEffectDue /\ ~aLoad.running

AdminLoadInit ==
  /\ aFilters = NoLoadFilters
  /\ aPrev = NoLoadFilters
  /\ aLen = 0
  /\ aIsLoading = TRUE
  /\ aLoad = NoLoad
  /\ aEffectDue = TRUE
  /\ aFetches = 0
  /\ aLastOp = "mount"

\* handleFilterChange(newFilters): setFilters with a new object; the filter
\* bar is rendered only while isLoading is false
handleFilterChange ==
  /\ ~aIsLoading
  /\ ~aEffectDue
  /\ \E f \in LoadFilters :
       aFilters' = f
  /\ aEffectDue' = TRUE
  /\ aFetches' = 0
  /\ aLastOp' = "handleFilterChange"
  /\ UNCHANGED <<aPrev, aLen, aIsLoading, aLoad>>
  /\ UNCHANGED notAdminLoadVars

\* the effect body, up to the first await of loadData()
AdminLoadEffect ==
  /\ aEffectDue
  /\ aEffectDue' = FALSE
  /\ LET branch == effectLoads(aPrev, aFilters, aLen) IN
       /\ aPrev' = IF branch = "filtersChanged" THEN aFilters ELSE aPrev
       /\ IF branch = "nothing"
          THEN UNCHANGED <<aIsLoading, aLoad, aFetches>>
          ELSE /\ ~aLoad.running
               /\ aIsLoading' = TRUE
               /\ aLoad' = RunningLoad(aFilters)
               /\ aFetches' = IF aFetches < MaxFetches THEN aFetches + 1 ELSE aFetches
  /\ aLastOp' = "effect"
  /\ UNCHANGED <<aFilters, aLen>>
  /\ UNCHANGED notAdminLoadVars

\* both fetches of loadData() settle: getArticles and getSites return a list
\* (the empty one on any failure), setArticles, setSites, finally
loadDataSettle ==
  /\ aLoad.running
  /\ \E n \in 0..MaxListLen :
       /\ aLen' = n
       /\ aEffectDue' = lengthDepChanged(aLen, n)
  /\ aIsLoading' = FALSE
  /\ aLoad' = NoLoad
  /\ aLastOp' = "settle"
  /\ UNCHANGED <<aFilters, aPrev, aFetches>>
  /\ UNCHANGED notAdminLoadVars

AdminLoadNext ==
  \/ handleFilterChange
  \/ AdminLoadEffect
  \/ loadDataSettle

\* C23: no request is repeated without the user asking: between two user
\* triggers (the mount, a filter change) the admin articles page fetches the
\* articles at most once.
C23_OneFetchPerTrigger == aFetches <= 1

\* C27: the load effect settles: a page that is loading always comes to rest
\* with isLoading false, no load in flight and no effect run due; it leaves
\* that rest only by a filter change; and a trigger causes at most two loads.
C27_LoadEffectSettles ==
  /\ (aIsLoading ~> AdminSettled)
  /\ [][(AdminSettled /\ ~AdminSettled') => aLastOp' = "handleFilterChange"]_vars
  /\ [](aFetches <= 2)

C27_Witness == AdminSettled /\ aLen = 0 /\ aFetches = 2

-----------------------------------------------------------------------------
(* The searching indicator of SearchAndFilter: handleSearchChange sets it,  *)
(* the effect on [searchTerm] arms a 500 ms timer that clears it, and the   *)
(* effect's cleanup clears the timer of the run before.                     *)

MaxNow == 5
\* the 500 ms of the timer, in clock ticks
DebounceDelay == 2

DebounceTerms == {"", "a", "b"}
Timer(due) == [due |-> due]

\* the cleanup of the effect: clearTimeout(timer)
clearTimeout_none(timers) == timers
clearTimeout(timers) == {}

\* the effect on [searchTerm]: cleanup of the run before, then setTimeout
debounceEffect(timers, now) == clearTimeout(timers) \cup {Timer(now + DebounceDelay)}

DebounceInit ==
  /\ sMounted = TRUE
  /\ sTerm \in {"", "a"}
  /\ sIsSearching = FALSE
  /\ sNow = 0
  /\ sTimers = {Timer(DebounceDelay)}
  /\ sLastChange = 0

\* handleSearchChange(e): the input reports a value other than its present one
SearchInputChange ==
  /\ sMounted
  /\ \E v \in DebounceTerms \ {sTerm} :
       sTerm' = v
  /\ sIsSearching' = TRUE
  /\ sTimers' = debounceEffect(sTimers, sNow)
  /\ sLastChange' = sNow
  /\ UNCHANGED <<sMounted, sNow>>
  /\ UNCHANGED notDebounceVars

\* the clear button inside the input, shown when there is a term and the
\* indicator is off, and the Clear Filters button: setSearchTerm('')
SearchTermClear ==
  /\ sMounted
  /\ sTerm # ""
  /\ sTerm' = ""
  /\ sTimers' = debounceEffect(sTimers, sNow)
  /\ sLastChange' = sNow
  /\ UNCHANGED <<sMounted, sIsSearching, sNow>>
  /\ UNCHANGED notDebounceVars

\* a timer that is due runs its callback: setIsSearching(false)
DebounceTimerFire ==
  /\ \E t \in sTimers :
       /\ t.due <= sNow
       /\ sTimers' = sTimers \ {t}
  /\ sIsSearching' = IF sMounted THEN FALSE ELSE sIsSearching
  /\ UNCHANGED <<sMounted, sTerm, sNow, sLastChange>>
  /\ UNCHANGED notDebounceVars

\* time passes, but not past a timer that is due
DebounceTick ==
  /\ sNow < MaxNow
  /\ \A t \in sTimers : t.due > sNow
  /\ sNow' = sNow + 1
  /\ UNCHANGED <<sMounted, sTerm, sIsSearching, sTimers, sLastChange>>
  /\ UNCHANGED notDebounceVars

\* the component unmounts: the cleanup of the last effect run
DebounceUnmount ==
  /\ sMounted
  /\ sMounted' = FALSE
  /\ sTimers' = clearTimeout(sTimers)
  /\ UNCHANGED <<sTerm, sIsSearching, sNow, sLastChange>>
  /\ UNCHANGED notDebounceVars

DebounceNext ==
  \/ SearchInputChange
  \/ SearchTermClear
  \/ DebounceTimerFire
  \/ DebounceTick
  \/ DebounceUnmount

\* C24: at most one timer is pending; none is pending after the unmount;
\* while the component is mounted the indicator is never set without a
\* pending timer, and it is cleared no later than 500 ms after the last
\* change of the input.
C24_IndicatorHasItsTimer ==
  /\ Cardinality(sTimers) <= 1
  /\ ~sMounted => sTimers = {}
  /\ (sMounted /\ sIsSearching) =>
       /\ sTimers # {}
       /\ sNow <= sLastChange + DebounceDelay
       /\ \A t \in sTimers : t.due <= sLastChange + DebounceDelay

\* the input changed twice within the 500 ms and the indicator is still set
C24_Witness ==
  /\ sMounted
  /\ sIsSearching
  /\ sLastChange > 0
  /\ sTimers = {Timer(sLastChange + DebounceDelay)}
  /\ sNow = sLastChange + 1

-----------------------------------------------------------------------------
(* Specifications *)

BrowserInit ==
  /\ documentCookie \in CookieJars
  /\ sentNow = {}

\* the parts a specification does not exercise stay in one fixed state
PagesIdle ==
  /\ apiSites = <<>>
  /\ apiArticles = <<>>
  /\ comp = "none"
  /\ params = NoParams
  /\ pagePc = "idle"
  /\ configResp = NoResp
  /\ sitesResp = NoResp
  /\ articlesResp = NoResp
  /\ view = "none"
  /\ shown = <<>>
  /\ shownSites = <<>>
  /\ pageReqs = {}

BrowserIdle ==
  /\ documentCookie = <<>>
  /\ sentNow = {}

AuthIdle ==
  /\ AuthInit
  /\ route = "/admin"

TableIdle ==
  /\ server = [id \in ArticleIds |-> "pending"]
  /\ articles = <<>>
  /\ selectedArticles = {}
  /\ loading = {}
  /\ inflight = {}
  /\ bulkPc = "idle"
  /\ bulkPending = {}
  /\ reloadPending = FALSE
  /\ statusFilter = ""
  /\ lastTable = TableStep("none", 0, "", "", 0, 0)

FilterIdle ==
  /\ urlQuery = {}
  /\ history = <<>>
  /\ histIdx = 0
  /\ searchTerm = ""
  /\ selectedCategory = "all"
  /\ effectPending = FALSE
  /\ fetchPending = FALSE
  /\ lastFetchQ = {}
  /\ navTarget = NoTarget
  /\ lastFilter = FilterStep("none")

DashIdle ==
  /\ dashTruth = ZeroStats
  /\ dashPc = "none"
  /\ dashResps = NoCountResps
  /\ stats = ZeroStats
  /\ dashIsLoading = FALSE

AiIdle ==
  /\ selectedSite = ""
  /\ aiPc = "none"
  /\ isGenerating = FALSE
  /\ message = <<>>
  /\ generatedArticle = "null"
  /\ topicsInFlight = 0
  /\ topicsLoading = FALSE
  /\ aiReqs = NoAiReqs
  /\ aiOutcome = NoAiOutcome
  /\ topics = 0
  /\ aiBy = "none"

SectionsIdle ==
  /\ sections = <<>>
  /\ previewDom = NotRendered
  /\ bodyHtml = NotRendered

SlugIdle ==
  /\ slugClock = 0
  /\ posted = <<>>

DetailIdle ==
  /\ dMounted = FALSE
  /\ dParams = ""
  /\ dLoads = {}
  /\ dStarted = 0
  /\ dState = [error |-> "", siteConfig |-> "null", article |-> "null", isLoading |-> TRUE]
  /\ dLatestOutcome = "none"
  /\ dLastSettle = "none"

AdminLoadIdle ==
  /\ aFilters = NoLoadFilters
  /\ aPrev = NoLoadFilters
  /\ aLen = 0
  /\ aIsLoading = FALSE
  /\ aLoad = NoLoad
  /\ aEffectDue = FALSE
  /\ aFetches = 0
  /\ aLastOp = "none"

DebounceIdle ==
  /\ sMounted = FALSE
  /\ sTerm = ""
  /\ sIsSearching = FALSE
  /\ sNow = 0
  /\ sTimers = {}
  /\ sLastChange = 0

ExtraIdle == FilterIdle /\ DashIdle /\ AiIdle /\ SectionsIdle /\ SlugIdle /\ DetailIdle /\ AdminLoadIdle /\ DebounceIdle

InitPages == PagesInit /\ BrowserIdle /\ AuthIdle /\ TableIdle /\ ExtraIdle
SpecPages == InitPages /\ [][PagesNext]_vars

InitAuth == AuthInit /\ BrowserInit /\ PagesIdle /\ TableIdle /\ ExtraIdle
SpecAuth == InitAuth /\ [][AuthNext]_vars
\* React runs a redirect effect after the render that made it due
SpecAuthLive ==
  /\ InitAuth
  /\ [][AuthNext]_vars
  /\ WF_vars(ProtectedRouteRedirect)
  /\ WF_vars(LoginRedirectEffect)

\* the table is seen without and with a csrftoken cookie
TableBrowserInit ==
  /\ documentCookie \in {<<>>, <<Cookie("sessionid", "s1"), Cookie("csrftoken", "tokB")>>}
  /\ sentNow = {}

InitTable == TableInit /\ TableBrowserInit /\ PagesIdle /\ AuthIdle /\ ExtraIdle
SpecTable == InitTable /\ [][TableNext]_vars
SpecTableNav == InitTable /\ [][TableNavNext]_vars

InitFilter == FilterInit /\ PagesIdle /\ BrowserIdle /\ AuthIdle /\ TableIdle /\ DashIdle /\ AiIdle /\ SectionsIdle /\ SlugIdle /\ DetailIdle /\ AdminLoadIdle /\ DebounceIdle
SpecFilter == InitFilter /\ [][FilterNext]_vars

InitDash == DashInit /\ PagesIdle /\ BrowserIdle /\ AuthIdle /\ TableIdle /\ FilterIdle /\ AiIdle /\ SectionsIdle /\ SlugIdle /\ DetailIdle /\ AdminLoadIdle /\ DebounceIdle
SpecDash == InitDash /\ [][DashNext]_vars

InitAi == AiInit /\ PagesIdle /\ BrowserIdle /\ AuthIdle /\ TableIdle /\ FilterIdle /\ DashIdle /\ SectionsIdle /\ SlugIdle /\ DetailIdle /\ AdminLoadIdle /\ DebounceIdle
SpecAi == InitAi /\ [][AiNext]_vars

InitSections == SectionsInit /\ PagesIdle /\ BrowserIdle /\ AuthIdle /\ TableIdle /\ FilterIdle /\ DashIdle /\ AiIdle /\ SlugIdle /\ DetailIdle /\ AdminLoadIdle /\ DebounceIdle
SpecSections == InitSections /\ [][SectionsNext]_vars

InitSlug == SlugInit /\ PagesIdle /\ BrowserIdle /\ AuthIdle /\ TableIdle /\ FilterIdle /\ DashIdle /\ AiIdle /\ SectionsIdle /\ DetailIdle /\ AdminLoadIdle /\ DebounceIdle
SpecSlug == InitSlug /\ [][SlugNext]_vars

InitDetail == DetailInit /\ PagesIdle /\ BrowserIdle /\ AuthIdle /\ TableIdle /\ FilterIdle /\ DashIdle /\ AiIdle /\ SectionsIdle /\ SlugIdle /\ AdminLoadIdle /\ DebounceIdle
SpecDetail == InitDetail /\ [][DetailNext]_vars

InitAdminLoad == AdminLoadInit /\ PagesIdle /\ BrowserIdle /\ AuthIdle /\ TableIdle /\ FilterIdle /\ DashIdle /\ AiIdle /\ SectionsIdle /\ SlugIdle /\ DetailIdle /\ DebounceIdle
SpecAdminLoad == InitAdminLoad /\ [][AdminLoadNext]_vars
\* every fetch gets its response or its failure, and React runs an effect
\* that is due after the render; the user need not ever change a filter
SpecAdminLoadLive ==
  /\ InitAdminLoad
  /\ [][AdminLoadNext]_vars
  /\ WF_vars(AdminLoadEffect)
  /\ WF_vars(loadDataSettle)

InitDebounce == DebounceInit /\ PagesIdle /\ BrowserIdle /\ AuthIdle /\ TableIdle /\ FilterIdle /\ DashIdle /\ AiIdle /\ SectionsIdle /\ SlugIdle /\ DetailIdle /\ AdminLoadIdle
SpecDebounce == InitDebounce /\ [][DebounceNext]_vars

=============================================================================
